---- MODULE Spec2Model ----
(***************************************************************************)
(* Repository Structural Analysis Engine of cubic-wiki:                    *)
(*   buildProjectTree   (src/src/lib/tree-builder.ts)                      *)
(*   analyzeSubsystems  (src/unnamed/part_007, subsystem-analyzer)         *)
(*   analyzeInsights    (src/unnamed/part_005, insights-analyzer)          *)
(* and their caller processRepositoryWithAI (src/src/lib/ai.ts), which     *)
(* hands one files array to all three.                                     *)
(*                                                                         *)
(* A JavaScript string is modelled as a sequence of words: "src/App.jsx"   *)
(* is <<"src", "/", "App", ".", "jsx">>.  Every word stands for the run of *)
(* characters it spells; the words that occur in the inputs are chosen so  *)
(* that none is a prefix of another, hence prefix, suffix, substring,      *)
(* split and comparison on word sequences agree with the same operations   *)
(* on the spelled strings.                                                 *)
(***************************************************************************)
EXTENDS Integers, Sequences, FiniteSets, TLC

VARIABLES
    files,              \* the caller's files array (RepositoryFile[]), shared by all calls
    filesKind,          \* "array" | "null" | "object": what the caller passes as files
    repository,         \* the GitHubRepository descriptor, or Null
    subsystemAnalysis,  \* outcome of the last analyzeSubsystems call
    projectTree,        \* outcome of the last buildProjectTree call
    insights,           \* outcome of the last analyzeInsights call
    calls,              \* log of the calls made so far, oldest first
    files0,             \* the files array as the caller built it (never written)
    store,              \* "file" | "database": which cache module is deployed
    now,                \* Date.now(), in milliseconds
    ticks,              \* how many times the clock has advanced
    available,          \* whether the cache's storage can be read and written
    cache,              \* cache key -> the stored entry, or NoEntry
    requests            \* the POST /api/analyze requests received so far, oldest first

engineVars ==
    <<files, filesKind, repository, subsystemAnalysis, projectTree, insights, calls, files0>>

cacheVars == <<store, now, ticks, available, cache, requests>>

vars == <<engineVars, cacheVars>>

(***************************************************************************)
(* Bounds of the model.                                                    *)
(***************************************************************************)
MaxFiles == 3
MaxCalls == 2

MaxMatches == 5

MaxRequests == 2

MaxTicks == 1

MaxSources == 22

MaxTests == 2

Null == "null"
Undefined == "undefined"
NoSize == -1

(***************************************************************************)
(* Strings as word sequences.                                              *)
(***************************************************************************)
Slash == "/"
Dot == "."

StartsWith(s, p) == Len(p) <= Len(s) /\ SubSeq(s, 1, Len(p)) = p

EndsWith(s, p) == Len(p) <= Len(s) /\ SubSeq(s, Len(s) - Len(p) + 1, Len(s)) = p

Includes(s, p) == \E i \in 1..(Len(s) - Len(p) + 1) : SubSeq(s, i, i + Len(p) - 1) = p

\* String.prototype.split(sep) for a one-word separator: "" gives [""]
RECURSIVE Split(_, _)
Split(s, sep) ==
    IF \A i \in 1..Len(s) : s[i] # sep
    THEN <<s>>
    ELSE LET i == CHOOSE k \in 1..Len(s) : s[k] = sep /\ \A j \in 1..(k - 1) : s[j] # sep
         IN  <<SubSeq(s, 1, i - 1)>> \o Split(SubSeq(s, i + 1, Len(s)), sep)

\* Array.prototype.join(sep)
RECURSIVE Join(_, _)
Join(parts, sep) ==
    IF Len(parts) = 0 THEN <<>>
    ELSE IF Len(parts) = 1 THEN parts[1]
    ELSE parts[1] \o <<sep>> \o Join(Tail(parts), sep)

\* a mutant of FilterBoolean: nothing is filtered out
FilterNothing(parts) == parts

\* .filter(Boolean) on an array of strings: the empty string is falsy
FilterBoolean(parts) == SelectSeq(parts, LAMBDA p : p # <<>>)

\* Array.prototype.pop() of a split: the last element
Last(parts) == parts[Len(parts)]

\* The words that have an upper-case letter, with their lower-case spelling
UpperToLower ==
    ("Bee" :> "bee") @@ ("Button" :> "button") @@ ("App" :> "app") @@
    ("Cargo" :> "cargo") @@ ("Dockerfile" :> "dockerfile") @@ ("TypeScript" :> "typescript")

LowerWord(w) == IF w \in DOMAIN UpperToLower THEN UpperToLower[w] ELSE w

\* String.prototype.toLowerCase()
ToLowerCase(s) == [i \in 1..Len(s) |-> LowerWord(s[i])]

(***************************************************************************)
(* String.prototype.localeCompare: the collation compares the whole        *)
(* strings letter by letter ignoring case (punctuation before letters,     *)
(* "." before "/"), and only when that finds no difference does case       *)
(* decide, lower case first.  It is not the code-unit order, in which      *)
(* every upper-case letter precedes every lower-case one.                  *)
(***************************************************************************)
CollationOrder ==
    <<"_", "__", ".", "/", "ant", "app", "bee", "button", "cat", "components", "cs", "js",
      "json", "jsx", "lib", "package", "py", "s", "src", "sub", "test", "ts", "tsx">>

PrimaryRank(w) == CHOOSE i \in 1..Len(CollationOrder) : CollationOrder[i] = LowerWord(w)

TertiaryRank(w) == IF w \in DOMAIN UpperToLower THEN 1 ELSE 0

\* lexicographic comparison of two sequences of numbers: -1, 0 or 1
RECURSIVE CompareKeys(_, _)
CompareKeys(a, b) ==
    IF Len(a) = 0 /\ Len(b) = 0 THEN 0
    ELSE IF Len(a) = 0 THEN -1
    ELSE IF Len(b) = 0 THEN 1
    ELSE IF a[1] < b[1] THEN -1
    ELSE IF a[1] > b[1] THEN 1
    ELSE CompareKeys(Tail(a), Tail(b))

localeCompare(a, b) ==
    LET primary == CompareKeys([i \in 1..Len(a) |-> PrimaryRank(a[i])],
                               [i \in 1..Len(b) |-> PrimaryRank(b[i])])
    IN  IF primary # 0 THEN primary
        ELSE CompareKeys([i \in 1..Len(a) |-> TertiaryRank(a[i])],
                         [i \in 1..Len(b) |-> TertiaryRank(b[i])])

(***************************************************************************)
(* The comparators handed to Array.prototype.sort in the three analysers.  *)
(***************************************************************************)
\* tree-builder.ts:45  (a, b) => a.path.localeCompare(b.path)
compareFilePath(a, b) == localeCompare(a.path, b.path)

\* a mutant of compareTreeNode: by name alone
compareTreeNodeByName(a, b) == localeCompare(a.name, b.name)

\* tree-builder.ts:110-117  directories first, then by name
compareTreeNode(a, b) ==
    IF a.type # b.type
    THEN (IF a.type = "directory" THEN -1 ELSE 1)
    ELSE localeCompare(a.name, b.name)

Sign(n) == IF n < 0 THEN -1 ELSE IF n > 0 THEN 1 ELSE 0

\* part_007:204-206  (a, b) => b.confidence - a.confidence
compareConfidence(a, b) == Sign(b.confidence - a.confidence)

\* part_005:200 and 426  (a, b) => b.count - a.count
compareCount(a, b) == Sign(b.count - a.count)

\* the order of Array.prototype.sort() without a comparator: by UTF-16 code units, in
\* which "." and "/" precede the upper-case letters, these "_", and that the lower-case ones
CodeUnitOrder ==
    <<".", "/", "App", "Bee", "Button", "_", "__", "ant", "bee", "cat", "components", "cs",
      "js", "json", "jsx", "lib", "package", "py", "s", "src", "sub", "test", "ts", "tsx">>

CodeUnitRank(w) == CHOOSE i \in 1..Len(CodeUnitOrder) : CodeUnitOrder[i] = w

compareCodeUnits(a, b) ==
    CompareKeys([i \in 1..Len(a) |-> CodeUnitRank(a[i])], [i \in 1..Len(b) |-> CodeUnitRank(b[i])])

Compare(how, a, b) ==
    CASE how = "codeUnits" -> compareCodeUnits(a, b)
      [] how = "filePath" -> compareFilePath(a, b)
      [] how = "treeNode" -> compareTreeNode(a, b)
      [] how = "confidence" -> compareConfidence(a, b)
      [] how = "count" -> compareCount(a, b)

(***************************************************************************)
(* Array.prototype.sort(compare): stable.  Insert(sorted, x) puts x after *)
(* every element that does not compare greater than x.                    *)
(***************************************************************************)
\* a mutant of Insert, an unstable sort: x is put before the elements it compares equal to
RECURSIVE InsertUnstable(_, _, _)
InsertUnstable(sorted, x, how) ==
    IF Len(sorted) = 0 THEN <<x>>
    ELSE IF Compare(how, x, Last(sorted)) <= 0
         THEN InsertUnstable(SubSeq(sorted, 1, Len(sorted) - 1), x, how) \o <<Last(sorted)>>
         ELSE sorted \o <<x>>

RECURSIVE Insert(_, _, _)
Insert(sorted, x, how) ==
    IF Len(sorted) = 0 THEN <<x>>
    ELSE IF Compare(how, x, Last(sorted)) < 0
         THEN Insert(SubSeq(sorted, 1, Len(sorted) - 1), x, how) \o <<Last(sorted)>>
         ELSE sorted \o <<x>>

RECURSIVE Sort(_, _)
Sort(arr, how) ==
    IF Len(arr) = 0 THEN <<>>
    ELSE Insert(Sort(SubSeq(arr, 1, Len(arr) - 1), how), Last(arr), how)

(***************************************************************************)
(* buildProjectTree (tree-builder.ts:21-105).                              *)
(*                                                                         *)
(* The tree is held flat: nodes maps the walk from the root to a node (the *)
(* sequence of names on the way, <<>> for the root) to the node; a node's  *)
(* children array is the sequence of its children's names, in array order. *)
(* hasChildren tells an empty children array from an absent one.           *)
(***************************************************************************)
RootNode ==
    [name |-> <<"root">>, type |-> "directory", path |-> <<>>, children |-> <<>>,
     hasChildren |-> TRUE, subsystemType |-> Undefined, fileType |-> Undefined,
     size |-> NoSize]

\* subsystemMap.get(p) after the forEach of lines 33-38: the last writer wins
SubsystemMapGet(subsystems, p) ==
    LET owners == {k \in 1..Len(subsystems) :
                     \E j \in 1..Len(subsystems[k].files) : subsystems[k].files[j] = p}
    IN  IF owners = {} THEN Undefined
        ELSE subsystems[CHOOSE k \in owners : \A o \in owners : o <= k].type

Max(a, b) == IF a >= b THEN a ELSE b

Min(a, b) == IF a <= b THEN a ELSE b

\* a mutant of FindChild: looks the child up by its path instead of its name
FindChildByPath(siblings, parentPath, part) ==
    \E k \in 1..Len(siblings) :
        (IF parentPath = <<>> THEN siblings[k]
         ELSE Join(<<parentPath, siblings[k]>>, Slash)) = part

\* currentNode.children.find((child) => child.name === part), lines 64-66
FindChild(siblings, parentPath, part) ==
    \E k \in 1..Len(siblings) : siblings[k] = part

\* a mutant of CurrentPath: the path is the root's path, "/" and the segments
CurrentPathFromRoot(pathParts, i) == <<Slash>> \o Join(SubSeq(pathParts, 1, i), Slash)

\* pathParts.slice(0, i + 1).join("/"), line 58 (i is 1-based here)
CurrentPath(pathParts, i) == Join(SubSeq(pathParts, 1, i), Slash)

\* the for loop of lines 55-93, from index i (1-based) on
RECURSIVE WalkPath(_, _, _, _, _)
WalkPath(st, file, pathParts, i, subsystems) ==
    IF i > Len(pathParts) THEN st
    ELSE
      LET part == pathParts[i]
          isFile == (i = Len(pathParts))
          currentPath == CurrentPath(pathParts, i)
          parentKey == SubSeq(pathParts, 1, i - 1)
          key == SubSeq(pathParts, 1, i)
          parent == st.nodes[parentKey]
          siblings == IF parent.hasChildren THEN parent.children ELSE <<>>
          existingNode == FindChild(siblings, parent.path, part)
          newNode ==
              [name |-> part,
               type |-> IF isFile THEN "file" ELSE "directory",
               path |-> currentPath,
               children |-> <<>>,
               hasChildren |-> ~isFile,
               subsystemType |-> SubsystemMapGet(subsystems, currentPath),
               fileType |-> IF isFile THEN file.type ELSE Undefined,
               size |-> IF isFile THEN file.size ELSE NoSize]
          next ==
              IF existingNode
              THEN st
              ELSE [st EXCEPT
                      !.nodes = (key :> newNode) @@
                                [st.nodes EXCEPT ![parentKey] =
                                    [parent EXCEPT !.hasChildren = TRUE,
                                                   !.children = siblings \o <<part>>]],
                      !.totalFiles = IF isFile THEN @ + 1 ELSE @,
                      !.totalDirectories = IF isFile THEN @ ELSE @ + 1]
      IN  WalkPath(next, file, pathParts, i + 1, subsystems)

\* a mutant of AddFile: the depth is taken before the empty segments are dropped
AddFileCountingEmpty(st, file, subsystems) ==
    LET pathParts == FilterBoolean(Split(file.path, Slash))
    IN  WalkPath([st EXCEPT !.maxDepth = Max(@, Len(Split(file.path, Slash)))],
                 file, pathParts, 1, subsystems)

\* the callback of sortedFiles.forEach, lines 47-94
AddFile(st, file, subsystems) ==
    LET pathParts == FilterBoolean(Split(file.path, Slash))
    IN  WalkPath([st EXCEPT !.maxDepth = Max(@, Len(pathParts))],
                 file, pathParts, 1, subsystems)

RECURSIVE AddFiles(_, _, _)
AddFiles(st, sortedFiles, subsystems) ==
    IF Len(sortedFiles) = 0 THEN st
    ELSE AddFiles(AddFile(st, sortedFiles[1], subsystems), Tail(sortedFiles), subsystems)

\* files.sort(...) of line 45: sorts the array it is called on and returns it
SortFiles(fs) == Sort(fs, "filePath")

\* sortTreeNode (lines 107-121) applied from the root: every children array is sorted
sortTreeNode(nodes) ==
    [key \in DOMAIN nodes |->
        IF ~nodes[key].hasChildren THEN nodes[key]
        ELSE LET kids == [k \in 1..Len(nodes[key].children) |->
                              nodes[key \o <<nodes[key].children[k]>>]]
                 sorted == Sort(kids, "treeNode")
             IN  [nodes[key] EXCEPT !.children = [k \in 1..Len(sorted) |-> sorted[k].name]]]

buildProjectTree(fs, subsystems) ==
    LET sortedFiles == SortFiles(fs)
        start == [nodes |-> (<<>> :> RootNode), totalFiles |-> 0,
                  totalDirectories |-> 0, maxDepth |-> 0]
        built == AddFiles(start, sortedFiles, subsystems)
    IN  [nodes |-> sortTreeNode(built.nodes),
         totalFiles |-> built.totalFiles,
         totalDirectories |-> built.totalDirectories,
         maxDepth |-> built.maxDepth]

(***************************************************************************)
(* A Map with string or record keys, as an array of entries in insertion   *)
(* order: set on a present key keeps the key's place.                      *)
(***************************************************************************)
MapHas(m, key) == \E k \in 1..Len(m) : m[k].key = key

MapGet(m, key) == m[CHOOSE k \in 1..Len(m) : m[k].key = key].value

MapSet(m, key, value) ==
    IF MapHas(m, key)
    THEN LET at == CHOOSE k \in 1..Len(m) : m[k].key = key
         IN  SubSeq(m, 1, at - 1) \o <<[key |-> key, value |-> value]>>
                 \o SubSeq(m, at + 1, Len(m))
    ELSE Append(m, [key |-> key, value |-> value])

MapValues(m) == [k \in 1..Len(m) |-> m[k].value]

(***************************************************************************)
(* analyzeSubsystems (part_007:1-261).                                     *)
(*                                                                         *)
(* Weights are in tenths and scores in units of 1/(10*FILE_COUNT_NORMALIZER)*)
(* = 1/50, so that weight * min(matches / 5, 1) is the integer             *)
(* weight * min(matches, 5), and a confidence of 1.0 is ScoreOne.          *)
(***************************************************************************)
FILE_COUNT_NORMALIZER == 5

CONFIDENCE_THRESHOLD == 4 * FILE_COUNT_NORMALIZER

ScoreOne == 10 * FILE_COUNT_NORMALIZER

Rule(match, weight) == [match |-> match, weight |-> weight]

SUBSYSTEM_CONFIGS ==
    << [name |-> "Frontend", type |-> "frontend",
        description |-> "User interface components and frontend logic",
        patterns |->
          << Rule(<< <<"pages", "/">>, <<"components", "/">>, <<"src", "/", "components", "/">>,
                     <<"src", "/", "pages", "/">>, <<"views", "/">>, <<"src", "/", "views", "/">> >>, 8),
             Rule(<< <<".", "jsx">>, <<".", "tsx">>, <<".", "vue">>, <<".", "svelte">> >>, 7),
             Rule(<< <<"public", "/">>, <<"static", "/">>, <<"assets", "/">> >>, 6),
             Rule(<< <<"styles", "/">>, <<"css", "/">>, <<"scss", "/">> >>, 5) >>],
       [name |-> "Backend", type |-> "backend",
        description |-> "Server-side logic and business rules",
        patterns |->
          << Rule(<< <<"server", "/">>, <<"backend", "/">>, <<"api", "/">> >>, 8),
             Rule(<< <<"controllers", "/">>, <<"handlers", "/">>, <<"routes", "/">> >>, 7),
             Rule(<< <<"services", "/">>, <<"business", "/">>, <<"domain", "/">> >>, 6),
             Rule(<< <<"/", "api", "/">>, <<".", "route", ".">>, <<".", "endpoint", ".">>,
                     <<".", "api", ".">> >>, 6) >>],
       [name |-> "Data Layer", type |-> "data",
        description |-> "Database models, schemas, and data access logic",
        patterns |->
          << Rule(<< <<"models", "/">>, <<"database", "/">>, <<"db", "/">>, <<"data", "/">> >>, 8),
             Rule(<< <<"repositories", "/">>, <<"dao", "/">>, <<"orm", "/">> >>, 7),
             Rule(<< <<".", "model", ".">>, <<".", "schema", ".">>, <<".", "migration", ".">> >>, 6),
             Rule(<< <<"prisma", "/">>, <<"migrations", "/">>, <<"seeds", "/">> >>, 6) >>],
       [name |-> "Configuration", type |-> "config",
        description |-> "Configuration files and deployment settings",
        patterns |->
          << Rule(<< <<"config", "/">>, <<"configuration", "/">> >>, 7),
             Rule(<< <<".", "config", ".">>, <<".", "env">>, <<".", "json">>, <<".", "yaml">>,
                     <<".", "yml">> >>, 5),
             Rule(<< <<"docker", "/">>, <<"k8s", "/">>, <<"kubernetes", "/">>,
                     <<"deployment", "/">> >>, 6),
             Rule(<< <<"Dockerfile">>, <<"docker", "-", "compose">> >>, 6) >>] >>

\* findPatternMatches (lines 185-189)
findPatternMatches(filePaths, patterns) ==
    SelectSeq(filePaths, LAMBDA path : \E k \in 1..Len(patterns) : Includes(path, patterns[k]))

\* new Set + add, and Array.from(set): the distinct elements in order of first insertion
RECURSIVE Distinct(_)
Distinct(arr) ==
    IF Len(arr) = 0 THEN <<>>
    ELSE LET front == Distinct(SubSeq(arr, 1, Len(arr) - 1))
         IN  IF \E k \in 1..Len(front) : front[k] = Last(arr) THEN front
             ELSE Append(front, Last(arr))

RECURSIVE Flatten(_)
Flatten(arrs) == IF Len(arrs) = 0 THEN <<>> ELSE arrs[1] \o Flatten(Tail(arrs))

RECURSIVE Sum(_)
Sum(nums) == IF Len(nums) = 0 THEN 0 ELSE nums[1] + Sum(Tail(nums))

\* a mutant of CapConfidence: the score is reported as it is
CapConfidenceNot(totalScore) == totalScore

\* Math.min(totalScore, 1.0), line 177
CapConfidence(totalScore) == Min(totalScore, ScoreOne)

\* a mutant of RuleScores: the number of matches is not normalised to at most 1
RuleScoresUncapped(filePaths, config) ==
    LET matchesOf(k) == findPatternMatches(filePaths, config.patterns[k].match)
        matching == SelectSeq([k \in 1..Len(config.patterns) |-> k],
                              LAMBDA k : Len(matchesOf(k)) > 0)
    IN  [n \in 1..Len(matching) |->
            config.patterns[matching[n]].weight * Len(matchesOf(matching[n]))]

\* the scores the rules add to totalScore (lines 155-167), in rule order, the rules
\* without a match left out
RuleScores(filePaths, config) ==
    LET matchesOf(k) == findPatternMatches(filePaths, config.patterns[k].match)
        matching == SelectSeq([k \in 1..Len(config.patterns) |-> k],
                              LAMBDA k : Len(matchesOf(k)) > 0)
    IN  [n \in 1..Len(matching) |->
            config.patterns[matching[n]].weight
                * Min(Len(matchesOf(matching[n])), FILE_COUNT_NORMALIZER)]

\* the null that detectSubsystem returns when no path matches
NoSubsystem == [name |-> Null]

\* detectSubsystem (lines 148-180)
detectSubsystem(filePaths, config) ==
    LET matchedFiles ==
            Distinct(Flatten([k \in 1..Len(config.patterns) |->
                                 findPatternMatches(filePaths, config.patterns[k].match)]))
        totalScore == Sum(RuleScores(filePaths, config))
    IN  IF Len(matchedFiles) = 0 THEN NoSubsystem
        ELSE [name |-> config.name, type |-> config.type, files |-> matchedFiles,
              confidence |-> CapConfidence(totalScore), description |-> config.description,
              scores |-> RuleScores(filePaths, config)]

(***************************************************************************)
(* subsystem.confidence >= CONFIDENCE_THRESHOLD (line 126) compares        *)
(* doubles.  The double sum of the rule scores equals the exact sum in     *)
(* every case but one that reaches the threshold exactly: 0.7 * (2/5) is   *)
(* the double 0.27999999999999997, and adding 0.6 * (1/5) = 0.12 to it     *)
(* gives 0.39999999999999997, below 0.4.                                   *)
(***************************************************************************)
RoundsBelowThreshold(scores) == scores = <<14, 6>>

MeetsThreshold(subsystem) ==
    /\ subsystem.confidence >= CONFIDENCE_THRESHOLD
    /\ ~RoundsBelowThreshold(subsystem.scores)

\* the SubsystemInfo returned, without the model's record of the rule scores
Info(subsystem) ==
    [name |-> subsystem.name, type |-> subsystem.type, files |-> subsystem.files,
     confidence |-> subsystem.confidence, description |-> subsystem.description]

\* the loop of deduplicateSubsystems, lines 195-202
RECURSIVE DedupLoop(_, _)
DedupLoop(subsystemMap, subsystems) ==
    IF Len(subsystems) = 0 THEN subsystemMap
    ELSE LET subsystem == subsystems[1]
             keep == \/ ~MapHas(subsystemMap, subsystem.type)
                     \/ subsystem.confidence > MapGet(subsystemMap, subsystem.type).confidence
         IN  DedupLoop(IF keep THEN MapSet(subsystemMap, subsystem.type, subsystem)
                       ELSE subsystemMap,
                       Tail(subsystems))

\* deduplicateSubsystems (lines 194-207)
deduplicateSubsystems(subsystems) == Sort(MapValues(DedupLoop(<<>>, subsystems)), "confidence")

\* charAt(0).toUpperCase() + slice(1) of a lower-case language name
Capitalized ==
    ("typescript" :> "Typescript") @@ ("python" :> "Python") @@ ("go" :> "Go")

AnyIncludes(filePaths, fragment) ==
    \E k \in 1..Len(filePaths) : Includes(filePaths[k], fragment)

HasPath(filePaths, path) == \E k \in 1..Len(filePaths) : filePaths[k] = path

\* a mutant of determineProjectType: the marker files are looked for before package.json,
\* and Cargo.toml before requirements.txt
determineProjectTypeMarkersFirst(repo, filePaths) ==
    LET language == ToLowerCase(repo.language)
    IN  IF HasPath(filePaths, <<"Cargo", ".", "toml">>) THEN <<"Rust", " ", "Project">>
        ELSE IF HasPath(filePaths, <<"requirements", ".", "txt">>)
                \/ HasPath(filePaths, <<"setup", ".", "py">>)
        THEN <<"Python", " ", "Project">>
        ELSE IF HasPath(filePaths, <<"go", ".", "mod">>) THEN <<"Go", " ", "Project">>
        ELSE IF HasPath(filePaths, <<"pom", ".", "xml">>)
                \/ AnyIncludes(filePaths, <<"build", ".", "gradle">>)
        THEN <<"Java", " ", "Project">>
        ELSE IF HasPath(filePaths, <<"package", ".", "json">>)
        THEN IF AnyIncludes(filePaths, <<"next", ".", "config">>)
             THEN <<"Next.js", " ", "Application">>
             ELSE IF AnyIncludes(filePaths, <<"components", "/">>)
                     \/ AnyIncludes(filePaths, <<"pages", "/">>)
             THEN <<"React", " ", "Application">>
             ELSE IF AnyIncludes(filePaths, <<"server">>) \/ AnyIncludes(filePaths, <<"express">>)
             THEN <<"Node.js", " ", "Server">>
             ELSE <<"JavaScript/TypeScript", " ", "Project">>
        ELSE IF language # <<>> THEN <<Capitalized[language[1]], " ", "Project">>
        ELSE <<"Software", " ", "Project">>

\* determineProjectType (lines 212-261); a language of null is held as the empty
\* string, which repository.language?.toLowerCase() || "" makes of it
determineProjectType(repo, filePaths) ==
    LET language == ToLowerCase(repo.language)
    IN  IF HasPath(filePaths, <<"package", ".", "json">>)
        THEN IF AnyIncludes(filePaths, <<"next", ".", "config">>)
             THEN <<"Next.js", " ", "Application">>
             ELSE IF AnyIncludes(filePaths, <<"components", "/">>)
                     \/ AnyIncludes(filePaths, <<"pages", "/">>)
             THEN <<"React", " ", "Application">>
             ELSE IF AnyIncludes(filePaths, <<"server">>) \/ AnyIncludes(filePaths, <<"express">>)
             THEN <<"Node.js", " ", "Server">>
             ELSE <<"JavaScript/TypeScript", " ", "Project">>
        ELSE IF HasPath(filePaths, <<"requirements", ".", "txt">>)
                \/ HasPath(filePaths, <<"setup", ".", "py">>)
        THEN <<"Python", " ", "Project">>
        ELSE IF HasPath(filePaths, <<"Cargo", ".", "toml">>) THEN <<"Rust", " ", "Project">>
        ELSE IF HasPath(filePaths, <<"go", ".", "mod">>) THEN <<"Go", " ", "Project">>
        ELSE IF HasPath(filePaths, <<"pom", ".", "xml">>)
                \/ AnyIncludes(filePaths, <<"build", ".", "gradle">>)
        THEN <<"Java", " ", "Project">>
        ELSE IF language # <<>> THEN <<Capitalized[language[1]], " ", "Project">>
        ELSE <<"Software", " ", "Project">>

EmptyAnalysis == [subsystems |-> <<>>, projectType |-> <<"Unknown", " ", "Project">>]

\* the body of analyzeSubsystems after the repository check, lines 104-142;
\* kind tells whether files is an array, and fs is then the array
analyzeFiles(repo, kind, fs) ==
    IF kind # "array" \/ Len(fs) = 0 THEN EmptyAnalysis
    ELSE LET filePaths == FilterBoolean([k \in 1..Len(fs) |-> fs[k].path])
             detected == [k \in 1..Len(SUBSYSTEM_CONFIGS) |->
                             detectSubsystem(filePaths, SUBSYSTEM_CONFIGS[k])]
             detectedSubsystems ==
                 SelectSeq(detected, LAMBDA sub : sub # NoSubsystem /\ MeetsThreshold(sub))
             uniqueSubsystems == deduplicateSubsystems(detectedSubsystems)
         IN  IF Len(filePaths) = 0 THEN EmptyAnalysis
             ELSE [subsystems |-> [k \in 1..Len(uniqueSubsystems) |-> Info(uniqueSubsystems[k])],
                   projectType |-> determineProjectType(repo, filePaths)]

Returned(v) == [called |-> TRUE, threw |-> FALSE, value |-> v]

Threw(e) == [called |-> TRUE, threw |-> TRUE, error |-> e]

NoRepository == [present |-> FALSE]

Repository(language) == [present |-> TRUE, language |-> language]

\* analyzeSubsystems (lines 95-143): the outcome of a call
analyzeSubsystems(repo, kind, fs) ==
    IF ~repo.present THEN Threw("Repository data is required")
    ELSE Returned(analyzeFiles(repo, kind, fs))

(***************************************************************************)
(* analyzeInsights (part_005; src/src/lib/insights-analyzer.ts is an       *)
(* earlier revision with the same merge, caps and coverage code).          *)
(*                                                                         *)
(* A file's content is held by what the library calls of the analyser make *)
(* of it:                                                                  *)
(*   parses, sections  JSON.parse: whether it succeeds, and the object's   *)
(*                     sections as [key, names], names being Object.keys   *)
(*   lines             content.split("\n"), each line trimmed              *)
(*   captures          captures[k]: the first capture group of every match *)
(*                     of the k-th regular expression that applies to the  *)
(*                     file (a manifest's patterns, a language's imports)  *)
(***************************************************************************)
Section(key, weight, exclude) == [key |-> key, weight |-> weight, exclude |-> exclude]

Pattern(global, weight) == [global |-> global, weight |-> weight]

\* MANIFEST_CONFIGS (lines 28-86), by lower-case file name
MANIFEST_CONFIGS ==
    (<<"package", ".", "json">> :>
        [type |-> "json",
         sections |-> << Section(<<"dependencies">>, 8, {}),
                         Section(<<"devDependencies">>, 5, {}),
                         Section(<<"peerDependencies">>, 3, {}),
                         Section(<<"optionalDependencies">>, 2, {}) >>,
         patterns |-> <<>>]) @@
    (<<"composer", ".", "json">> :>
        [type |-> "json",
         sections |-> << Section(<<"require">>, 7, {<<"php">>}),
                         Section(<<"require-dev">>, 4, {}) >>,
         patterns |-> <<>>]) @@
    (<<"cargo", ".", "toml">> :>
        [type |-> "toml",
         sections |-> << Section(<<"[", "dependencies", "]">>, 7, {}),
                         Section(<<"[", "dev-dependencies", "]">>, 4, {}) >>,
         patterns |-> <<>>]) @@
    (<<"go", ".", "mod">> :>
        [type |-> "lines", sections |-> <<>>,
         patterns |-> << Pattern(FALSE, 6), Pattern(FALSE, 6) >>]) @@
    (<<"pyproject", ".", "toml">> :>
        [type |-> "toml",
         sections |-> << Section(<<"[", "tool.poetry.dependencies", "]">>, 7, {<<"python">>}),
                         Section(<<"[", "project.dependencies", "]">>, 7, {}),
                         Section(<<"[", "tool.poetry.group.dev.dependencies", "]">>, 4, {}),
                         Section(<<"[", "tool.poetry.dev-dependencies", "]">>, 4, {}) >>,
         patterns |-> <<>>]) @@
    (<<"pom", ".", "xml">> :>
        [type |-> "xml", sections |-> <<>>, patterns |-> << Pattern(TRUE, 6) >>]) @@
    (<<"pubspec", ".", "yaml">> :>
        [type |-> "yaml",
         sections |-> << Section(<<"dependencies", ":">>, 7, {<<"flutter">>, <<"sdk">>}),
                         Section(<<"dev_dependencies", ":">>, 4, {}) >>,
         patterns |-> <<>>])

\* REQUIREMENTS_PATTERNS.parser (lines 91-94): the regular expression has no g flag
REQUIREMENTS_PARSER ==
    [type |-> "lines", sections |-> <<>>, patterns |-> << Pattern(FALSE, 7) >>]

\* GRADLE_PATTERNS.parser (lines 100-114)
GRADLE_PARSER ==
    [type |-> "lines", sections |-> <<>>, patterns |-> << Pattern(TRUE, 6), Pattern(TRUE, 6) >>]

\* the sections parsePipfile (lines 371-399) tracks, with its weights
PIPFILE_SECTIONS ==
    << Section(<<"[", "packages", "]">>, 7, {}), Section(<<"[", "dev-packages", "]">>, 4, {}) >>

Dep(name, count) == [name |-> name, count |-> count]

DepsOf(names, weight) == [k \in 1..Len(names) |-> Dep(names[k], weight)]

Parsed(deps) == [threw |-> FALSE, deps |-> deps]

ParseError == [threw |-> TRUE, deps |-> <<>>]

CapturesOf(content, k) == IF k <= Len(content.captures) THEN content.captures[k] ELSE <<>>

\* data[section.key] of the parsed object, or <<>> when the object has no such key
SectionNames(content, key) ==
    LET at == {k \in 1..Len(content.sections) : content.sections[k].key = key}
    IN  IF at = {} THEN <<>> ELSE content.sections[CHOOSE k \in at : TRUE].names

\* the words a dependency name /^([a-zA-Z0-9_.-]+)/ cannot contain
NonNameWords == {" ", "=", ":", "[", "]", "{", "}", "\"", "^", ",", "#", "/"}

\* trimmed.match(/^([a-zA-Z0-9_.-]+)\s*=/): the name, or <<>> when there is no match
RECURSIVE NameBeforeEquals(_, _)
NameBeforeEquals(trimmed, k) ==
    IF k > Len(trimmed) THEN <<>>
    ELSE IF trimmed[k] \notin NonNameWords THEN NameBeforeEquals(trimmed, k + 1)
    ELSE LET rest == SubSeq(trimmed, k, Len(trimmed))
             blanks == {n \in 0..Len(rest) : \A i \in 1..n : rest[i] = " "}
             skipped == CHOOSE n \in blanks : \A m \in blanks : m <= n
         IN  IF k > 1 /\ skipped < Len(rest) /\ rest[skipped + 1] = "="
             THEN SubSeq(trimmed, 1, k - 1)
             ELSE <<>>

\* the line scan of parseStructuredFile from the k-th line on (lines 336-366);
\* scan is [deps, currentSection, currentWeight]
RECURSIVE ScanLines(_, _, _, _)
ScanLines(scan, lines, k, sections) ==
    IF k > Len(lines) THEN scan.deps
    ELSE
      LET trimmed == lines[k]
          headers == {n \in 1..Len(sections) : sections[n].key = trimmed}
          section == sections[CHOOSE n \in headers : \A m \in headers : n <= m]
          tracked == {n \in 1..Len(sections) : sections[n].key = scan.currentSection}
          current == sections[CHOOSE n \in tracked : \A m \in tracked : n <= m]
          name == NameBeforeEquals(trimmed, 1)
          next ==
              IF headers # {}
              THEN [scan EXCEPT !.currentSection = section.key,
                                !.currentWeight = section.weight]
              ELSE IF StartsWith(trimmed, <<"[">>) /\ scan.currentSection # <<>>
              THEN [scan EXCEPT !.currentSection = <<>>, !.currentWeight = 0]
              ELSE IF scan.currentSection # <<>> /\ Includes(trimmed, <<"=">>)
                      /\ name # <<>> /\ name \notin current.exclude
              THEN [scan EXCEPT !.deps = Append(@, Dep(name, scan.currentWeight))]
              ELSE scan
      IN  ScanLines(next, lines, k + 1, sections)

\* parseStructuredFile (lines 327-369)
parseStructuredFile(content, sections) ==
    ScanLines([deps |-> <<>>, currentSection |-> <<>>, currentWeight |-> 0],
              content.lines, 1, sections)

\* the json case of parseWithConfig (lines 273-284)
RECURSIVE JsonSections(_, _)
JsonSections(content, sections) ==
    IF Len(sections) = 0 THEN <<>>
    ELSE LET section == sections[1]
             names == SelectSeq(SectionNames(content, section.key),
                                LAMBDA name : name \notin section.exclude)
         IN  DepsOf(names, section.weight) \o JsonSections(content, Tail(sections))

\* the lines and xml cases of parseWithConfig (lines 291-321): String.prototype.matchAll
\* throws a TypeError for a regular expression without the g flag
RECURSIVE MatchPatterns(_, _, _)
MatchPatterns(content, patterns, k) ==
    IF k > Len(patterns) THEN Parsed(<<>>)
    ELSE IF ~patterns[k].global THEN ParseError
    ELSE LET rest == MatchPatterns(content, patterns, k + 1)
         IN  IF rest.threw THEN ParseError
             ELSE Parsed(DepsOf(CapturesOf(content, k), patterns[k].weight) \o rest.deps)

\* parseWithConfig (lines 269-325)
parseWithConfig(content, config) ==
    CASE config.type = "json" ->
            IF content.parses THEN Parsed(JsonSections(content, config.sections))
            ELSE ParseError
      [] config.type \in {"toml", "yaml"} ->
            Parsed(parseStructuredFile(content, config.sections))
      [] config.type \in {"lines", "xml"} ->
            MatchPatterns(content, config.patterns, 1)

\* file.path.split("/").pop()?.toLowerCase() || ""
LowerFileName(path) == ToLowerCase(Last(Split(path, Slash)))

\* the body of the try block for one file (lines 213-260)
ParseManifest(file) ==
    LET filename == LowerFileName(file.path)
    IN  IF filename \in DOMAIN MANIFEST_CONFIGS
        THEN parseWithConfig(file.content, MANIFEST_CONFIGS[filename])
        ELSE IF Includes(filename, <<"requirements">>) /\ EndsWith(filename, <<".", "txt">>)
        THEN parseWithConfig(file.content, REQUIREMENTS_PARSER)
        ELSE IF EndsWith(filename, <<"build", ".", "gradle">>)
                \/ EndsWith(filename, <<"build", ".", "gradle", ".", "kts">>)
        THEN parseWithConfig(file.content, GRADLE_PARSER)
        ELSE IF \E x \in {"csproj", "vbproj", "fsproj"} : EndsWith(filename, <<".", x>>)
        THEN Parsed(DepsOf(CapturesOf(file.content, 1), 6))
        ELSE IF filename = <<"gemfile">>
        THEN Parsed(DepsOf(CapturesOf(file.content, 1), 6))
        ELSE IF filename = <<"pipfile">>
        THEN Parsed(parseStructuredFile(file.content, PIPFILE_SECTIONS))
        ELSE Parsed(<<>>)

\* a mutant of parseManifestDependencies: one try block around the whole loop, so that a
\* file that fails to parse ends the extraction
RECURSIVE ManifestDepsUntilError(_)
ManifestDepsUntilError(fs) ==
    IF Len(fs) = 0 \/ ParseManifest(fs[1]).threw THEN <<>>
    ELSE ParseManifest(fs[1]).deps \o ManifestDepsUntilError(Tail(fs))

\* parseManifestDependencies (lines 204-267): the try/catch is per file, and a file
\* whose parse throws has pushed nothing
RECURSIVE parseManifestDependencies(_)
parseManifestDependencies(fs) ==
    IF Len(fs) = 0 THEN <<>>
    ELSE (IF ParseManifest(fs[1]).threw THEN <<>> ELSE ParseManifest(fs[1]).deps)
             \o parseManifestDependencies(Tail(fs))

\* the languages of IMPORT_PATTERNS (lines 118-141) by extension: EXT_TO_LANG, lines 158-173
EXT_TO_LANG ==
    ("js" :> "js") @@ ("jsx" :> "js") @@ ("ts" :> "js") @@ ("tsx" :> "js") @@
    ("py" :> "python") @@ ("go" :> "go") @@ ("java" :> "java") @@ ("kt" :> "java") @@
    ("scala" :> "java") @@ ("rs" :> "rust") @@ ("php" :> "php") @@ ("rb" :> "ruby") @@
    ("dart" :> "dart") @@ ("cs" :> "csharp")

\* the number of regular expressions IMPORT_PATTERNS has for a language
ImportPatternCount ==
    ("js" :> 3) @@ ("python" :> 2) @@ ("go" :> 2) @@ ("java" :> 1) @@ ("rust" :> 2) @@
    ("php" :> 2) @@ ("ruby" :> 2) @@ ("dart" :> 2) @@ ("csharp" :> 1)

\* the extensions of the codeFiles filter, line 405
ImportExtensions ==
    {"js", "jsx", "ts", "tsx", "py", "go", "java", "php", "rb", "rs", "dart", "swift",
     "kt", "scala", "cs"}

JsStdLib ==
    {"fs", "path", "os", "crypto", "http", "https", "url", "querystring", "util", "events",
     "stream", "buffer", "child_process", "cluster", "dgram", "dns", "net", "readline",
     "repl", "tls", "tty", "vm", "zlib"}

PythonStdLib ==
    {"os", "sys", "json", "re", "math", "datetime", "collections", "itertools", "functools",
     "operator", "copy", "pickle", "sqlite3", "urllib", "http", "email", "html", "xml",
     "csv", "configparser", "logging", "unittest", "threading", "multiprocessing",
     "subprocess", "shutil", "tempfile", "pathlib", "glob", "fnmatch", "random", "hashlib",
     "hmac", "secrets", "typing", "dataclasses", "enum", "abc", "contextlib", "weakref"}

GoStdLib ==
    {"fmt", "os", "io", "net", "http", "time", "strings", "strconv", "sort", "math",
     "crypto", "encoding", "database", "context", "sync", "regexp", "path", "log", "flag",
     "bufio", "bytes", "errors", "reflect", "runtime", "testing", "unsafe", "archive",
     "compress", "container", "debug", "go", "hash", "image", "index", "mime", "plugin",
     "text", "unicode"}

\* STD_LIB_PATTERNS[language].test(importPath), lines 144-155.  The python pattern ends
\* in (\\.|$), a backslash and one more character or the end, so that a dotted module
\* path never matches; the php and ruby patterns match every string
IsStdLib(language, importPath) ==
    CASE language = "js" -> Len(importPath) = 1 /\ importPath[1] \in JsStdLib
      [] language = "python" ->
            /\ Len(importPath) >= 1 /\ importPath[1] \in PythonStdLib
            /\ (Len(importPath) = 1 \/ (Len(importPath) >= 3 /\ importPath[2] = "\\"))
      [] language = "go" ->
            /\ Len(importPath) >= 1 /\ importPath[1] \in GoStdLib
            /\ (Len(importPath) = 1 \/ importPath[2] = Slash)
      [] language = "java" ->
            Len(importPath) >= 2 /\ importPath[1] \in {"java", "javax"} /\ importPath[2] = Dot
      [] language = "rust" ->
            Len(importPath) >= 2 /\ importPath[1] \in {"std", "core", "alloc"}
                /\ importPath[2] = "::"
      [] language = "csharp" ->
            Len(importPath) >= 2 /\ importPath[1] \in {"System", "Microsoft"}
                /\ importPath[2] = Dot
      [] language \in {"php", "ruby"} -> TRUE
      [] language = "dart" -> StartsWith(importPath, <<"dart", ":">>)

\* parts.slice(0, n).join(sep) of a split
FirstParts(s, sep, n) == Join(SubSeq(Split(s, sep), 1, Min(n, Len(Split(s, sep)))), sep)

\* the switch of processImport, lines 479-526
PackageName(language, importPath) ==
    CASE language = "js" ->
            IF StartsWith(importPath, <<"@">>) THEN FirstParts(importPath, Slash, 2)
            ELSE Split(importPath, Slash)[1]
      [] language = "python" -> Split(importPath, Dot)[1]
      [] language = "go" ->
            LET parts == Split(importPath, Slash)
            IN  IF ~Includes(importPath, <<Slash>>) THEN importPath
                ELSE IF parts[1] \in {<<"github", ".", "com">>, <<"gitlab", ".", "com">>}
                THEN FirstParts(importPath, Slash, 3)
                ELSE IF Includes(parts[1], <<Dot>>) THEN parts[1]
                ELSE importPath
      [] language = "java" -> FirstParts(importPath, Dot, 2)
      [] language = "rust" -> Split(importPath, "::")[1]
      [] language = "php" -> Split(importPath, "\\")[1]
      [] language = "dart" ->
            IF StartsWith(importPath, <<"package", ":">>)
            THEN Split(SubSeq(importPath, 3, Len(importPath)), Slash)[1]
            ELSE importPath
      [] language = "csharp" -> Split(importPath, Dot)[1]
      [] language = "ruby" -> importPath

\* processImport (lines 462-531): the externalDeps map after the call
processImport(importPath, language, externalDeps) ==
    IF StartsWith(importPath, <<Dot>>) \/ StartsWith(importPath, <<Slash>>) THEN externalDeps
    ELSE IF IsStdLib(language, importPath) THEN externalDeps
    ELSE LET packageName == PackageName(language, importPath)
         IN  IF packageName # <<>> /\ packageName # Split(importPath, Dot)[1]
             THEN MapSet(externalDeps, packageName,
                         (IF MapHas(externalDeps, packageName)
                          THEN MapGet(externalDeps, packageName) ELSE 0) + 1)
             ELSE externalDeps

\* the names that processImport records for a run of matches, in match order: what
\* one call adds to an empty map, for every match with a capture
RecordedNames(importPaths, language) ==
    LET names == [k \in 1..Len(importPaths) |->
                     IF importPaths[k] = <<>> THEN <<>>
                     ELSE LET recorded == processImport(importPaths[k], language, <<>>)
                          IN  IF Len(recorded) = 0 THEN <<>> ELSE recorded[1].key]
    IN  SelectSeq(names, LAMBDA name : name # <<>>)

\* externalDeps.set(name, (externalDeps.get(name) || 0) + 1) for every name in turn: a
\* Map keeps a key where it was first set, and its value is raised once per name
CountInto(externalDeps, names) ==
    LET known(name) == \E e \in 1..Len(externalDeps) : externalDeps[e].key = name
        times(name) == Cardinality({k \in 1..Len(names) : names[k] = name})
        firsts == SelectSeq([k \in 1..Len(names) |-> k],
                            LAMBDA k : /\ ~known(names[k])
                                       /\ \A j \in 1..(k - 1) : names[j] # names[k])
    IN  [e \in 1..Len(externalDeps) |->
            [key |-> externalDeps[e].key,
             value |-> externalDeps[e].value + times(externalDeps[e].key)]]
        \o [n \in 1..Len(firsts) |->
               [key |-> names[firsts[n]], value |-> times(names[firsts[n]])]]

\* the calls of processImport for the matches of one pattern run, lines 436-458
ProcessImports(importPaths, language, externalDeps) ==
    CountInto(externalDeps, RecordedNames(importPaths, language))

\* analyzeFileImports (lines 430-460): every pattern of the language in turn
analyzeFileImports(file, language, externalDeps) ==
    ProcessImports(Flatten([k \in 1..ImportPatternCount[language] |->
                               CapturesOf(file.content, k)]),
                   language, externalDeps)

\* file.path.split(".").pop()
Extension(path) == Last(Split(path, Dot))

RECURSIVE ScanFiles(_, _)
ScanFiles(codeFiles, externalDeps) ==
    IF Len(codeFiles) = 0 THEN externalDeps
    ELSE LET ext == ToLowerCase(Extension(codeFiles[1].path))
             known == Len(ext) = 1 /\ ext[1] \in DOMAIN EXT_TO_LANG
         IN  ScanFiles(Tail(codeFiles),
                       IF known
                       THEN analyzeFileImports(codeFiles[1], EXT_TO_LANG[ext[1]], externalDeps)
                       ELSE externalDeps)

IMPORT_CAP == 15

DEPENDENCY_CAP == 20

\* Array.prototype.slice(0, n)
Slice(arr, n) == SubSeq(arr, 1, Min(n, Len(arr)))

\* analyzeImportStatements (lines 401-428)
analyzeImportStatements(fs) ==
    LET codeFiles == SelectSeq(fs, LAMBDA file :
                         \E x \in ImportExtensions : EndsWith(file.path, <<Dot, x>>))
        externalDeps == ScanFiles(codeFiles, <<>>)
        deps == [k \in 1..Len(externalDeps) |->
                    Dep(externalDeps[k].key, externalDeps[k].value)]
    IN  Slice(Sort(deps, "count"), IMPORT_CAP)

\* manifestDeps.forEach((dep) => combined.set(dep.name, dep)), line 189, on the new Map
\* of line 186: a Map keeps a key where it was first set, with the value set last
SetAll(deps) ==
    LET indexes == [k \in 1..Len(deps) |-> k]
        firsts == SelectSeq(indexes,
                            LAMBDA k : \A j \in 1..(k - 1) : deps[j].name # deps[k].name)
        last(name) == CHOOSE k \in 1..Len(deps) :
                          /\ deps[k].name = name
                          /\ \A j \in (k + 1)..Len(deps) : deps[j].name # name
    IN  [i \in 1..Len(firsts) |->
            [key |-> deps[firsts[i]].name, value |-> deps[last(deps[firsts[i]].name)]]]

\* a mutant of MergeImports: the count of a name found in both sources is their sum
RECURSIVE MergeImportsSum(_, _)
MergeImportsSum(combined, importDeps) ==
    IF Len(importDeps) = 0 THEN combined
    ELSE LET dep == importDeps[1]
             existing == MapGet(combined, dep.name)
         IN  MergeImportsSum(
                 IF ~MapHas(combined, dep.name) THEN MapSet(combined, dep.name, dep)
                 ELSE MapSet(combined, dep.name,
                             [existing EXCEPT !.count = existing.count + dep.count]),
                 Tail(importDeps))

\* the importDeps.forEach of lines 190-197
RECURSIVE MergeImports(_, _)
MergeImports(combined, importDeps) ==
    IF Len(importDeps) = 0 THEN combined
    ELSE LET dep == importDeps[1]
             existing == MapGet(combined, dep.name)
         IN  MergeImports(
                 IF ~MapHas(combined, dep.name) THEN MapSet(combined, dep.name, dep)
                 ELSE MapSet(combined, dep.name,
                             [existing EXCEPT !.count = Max(existing.count, dep.count)]),
                 Tail(importDeps))

\* a mutant of TopDependencies: the list is cut one entry late
TopDependenciesOneMore(sorted) == Slice(sorted, DEPENDENCY_CAP + 1)

\* .slice(0, 20) of line 201
TopDependencies(sorted) == Slice(sorted, DEPENDENCY_CAP)

\* analyzeDependencies (lines 182-202)
analyzeDependencies(fs) ==
    LET manifestDeps == parseManifestDependencies(fs)
        importDeps == analyzeImportStatements(fs)
        combined == MergeImports(SetAll(manifestDeps), importDeps)
    IN  TopDependencies(Sort(MapValues(combined), "count"))

(***************************************************************************)
(* analyzeTestCoverage (part_005:533-613) and detectTestFramework          *)
(* (615-646).                                                              *)
(***************************************************************************)
\* the extensions of the .test./.spec. pattern (line 540) and of sourceName (line 587)
TestExtensions == {"js", "jsx", "ts", "tsx", "py", "go", "java", "rs", "php", "rb"}

\* the extensions of isCode, line 555
CodeExtensions == TestExtensions \cup {"c", "cpp", "cs"}

\* the predicate of the testFiles filter, lines 535-550
IsTestFile(file) ==
    LET path == ToLowerCase(file.path)
        fileName == Last(Split(path, Slash))
    IN  \/ \E t \in {"test", "spec"}, x \in TestExtensions : EndsWith(path, <<Dot, t, Dot, x>>)
        \/ Includes(path, <<"__", "test", "s", "__">>)
        \/ Includes(path, <<Slash, "test", "s", Slash>>)
        \/ Includes(path, <<Slash, "test", Slash>>)
        \/ (StartsWith(fileName, <<"test">>) /\ EndsWith(fileName, <<Dot, "py">>))
        \/ fileName = <<"conftest", Dot, "py">>
        \/ EndsWith(path, <<"_", "test", Dot, "py">>)
        \/ EndsWith(path, <<"_", "test", Dot, "go">>)
        \/ EndsWith(path, <<"_", "spec", Dot, "rb">>)

\* a mutant of IsSourceFile: a file is a source file whether it is a test file or not
IsSourceFileCountingTests(file, testFiles) ==
    LET path == ToLowerCase(file.path)
    IN  /\ \E x \in CodeExtensions : EndsWith(path, <<Dot, x>>)
        /\ ~\E excluded \in {<<"node_modules">>, <<"dist", Slash>>, <<"build", Slash>>,
                              <<Dot, "git", Slash>>, <<"coverage", Slash>>, <<"generated">>} :
                Includes(path, excluded)
        /\ ~EndsWith(path, <<Dot, "d", Dot, "ts">>)

\* the predicate of the sourceFiles filter, lines 553-569
IsSourceFile(file, testFiles) ==
    LET path == ToLowerCase(file.path)
        isCode == \E x \in CodeExtensions : EndsWith(path, <<Dot, x>>)
        isTest == \E k \in 1..Len(testFiles) : testFiles[k].path = file.path
        isExcluded ==
            \/ Includes(path, <<"node_modules">>)
            \/ Includes(path, <<"dist", Slash>>)
            \/ Includes(path, <<"build", Slash>>)
            \/ Includes(path, <<Dot, "git", Slash>>)
            \/ Includes(path, <<"coverage", Slash>>)
            \/ EndsWith(path, <<Dot, "d", Dot, "ts">>)
            \/ Includes(path, <<"generated">>)
    IN  isCode /\ ~isTest /\ ~isExcluded

\* Math.round((testFileCount / totalFiles) * 100), for totalFiles > 0.  The double
\* product can fall short of an exact half (23/40 gives 57.49999999999999), which takes
\* a totalFiles that is a multiple of 8
RoundPercent(testFileCount, totalFiles) ==
    (200 * testFileCount + totalFiles) \div (2 * totalFiles)

\* a mutant of estimatedCoverage: the division is made whatever totalFiles is, and a
\* division by zero gives Infinity, which the clamp turns into 100
estimatedCoverageUnguarded(testFileCount, totalFiles) ==
    IF totalFiles > 0 THEN Min(RoundPercent(testFileCount, totalFiles), 100)
    ELSE IF testFileCount > 0 THEN 100 ELSE 0

\* estimatedCoverage, lines 575-578
estimatedCoverage(testFileCount, totalFiles) ==
    IF totalFiles > 0 THEN Min(RoundPercent(testFileCount, totalFiles), 100) ELSE 0

\* sourceName of lines 583-587: the file name without a trailing test extension
SourceName(path) ==
    LET fileName == Last(Split(path, Slash))
    IN  IF \E x \in TestExtensions : EndsWith(fileName, <<Dot, x>>)
        THEN SubSeq(fileName, 1, Len(fileName) - 2)
        ELSE fileName

UNTESTED_CAP == 20

\* untestedFiles, lines 581-594
UntestedFiles(sourceFiles, testFiles) ==
    LET untested == SelectSeq(sourceFiles, LAMBDA sourceFile :
                        ~\E k \in 1..Len(testFiles) :
                            Includes(ToLowerCase(testFiles[k].path),
                                     ToLowerCase(SourceName(sourceFile.path))))
    IN  Slice(Sort([k \in 1..Len(untested) |-> untested[k].path], "codeUnits"), UNTESTED_CAP)

\* the first element of an array that satisfies Test, as files.find gives it
FirstIndex(flags) ==
    IF \E k \in 1..Len(flags) : flags[k]
    THEN CHOOSE k \in 1..Len(flags) : flags[k] /\ \A j \in 1..(k - 1) : ~flags[j]
    ELSE 0

FRAMEWORKS ==
    << [key |-> <<"vitest">>, name |-> "Vitest"],
       [key |-> <<"jest">>, name |-> "Jest"],
       [key |-> <<"mocha">>, name |-> "Mocha"],
       [key |-> <<"cypress">>, name |-> "Cypress"],
       [key |-> <<"@playwright", "/", "test">>, name |-> "Playwright"] >>

\* detectTestFramework, lines 615-646
detectTestFramework(fs) ==
    LET at == FirstIndex([k \in 1..Len(fs) |-> EndsWith(fs[k].path, <<"package", Dot, "json">>)])
        pkg == fs[at].content
        allDeps == UNION {{pkg.sections[n].names[i] : i \in 1..Len(pkg.sections[n].names)} :
                             n \in {m \in 1..Len(pkg.sections) :
                                      pkg.sections[m].key \in
                                          {<<"dependencies">>, <<"devDependencies">>}}}
        hits == FirstIndex([k \in 1..Len(FRAMEWORKS) |->
                               at > 0 /\ pkg.parses /\ FRAMEWORKS[k].key \in allDeps])
    IN  IF hits > 0 THEN FRAMEWORKS[hits].name
        ELSE IF \E k \in 1..Len(fs) : EndsWith(fs[k].path, <<"conftest", Dot, "py">>)
        THEN "pytest"
        ELSE IF \E k \in 1..Len(fs) : EndsWith(fs[k].path, <<"_", "test", Dot, "go">>)
        THEN "Go testing"
        ELSE IF \E k \in 1..Len(fs) :
                    LET fileName == Last(Split(fs[k].path, Slash))
                    IN  StartsWith(fileName, <<"test">>) /\ EndsWith(fileName, <<Dot, "py">>)
        THEN "pytest"
        ELSE Undefined

\* analyzeTestCoverage, lines 533-613; testToSourceRatio is in hundredths
analyzeTestCoverage(fs) ==
    LET testFiles == SelectSeq(fs, IsTestFile)
        sourceFiles == SelectSeq(fs, LAMBDA file : IsSourceFile(file, testFiles))
        totalFiles == Len(sourceFiles)
        testFileCount == Len(testFiles)
        untestedFiles == UntestedFiles(sourceFiles, testFiles)
    IN  [percentage |-> estimatedCoverage(testFileCount, totalFiles),
         testedFiles |-> IF testFileCount > 0
                         THEN Max(1, totalFiles - Len(untestedFiles)) ELSE 0,
         totalFiles |-> totalFiles,
         testFiles |-> [k \in 1..Len(testFiles) |-> testFiles[k].path],
         testFramework |-> detectTestFramework(fs),
         untestedFiles |-> untestedFiles,
         testToSourceRatio |-> IF testFileCount > 0 /\ totalFiles > 0
                               THEN RoundPercent(testFileCount, totalFiles) ELSE 0]

\* analyzeInsights (lines 175-180): the outcome of a call.  for (const file of files)
\* throws a TypeError when files is not iterable
analyzeInsights(kind, fs) ==
    IF kind # "array" THEN Threw("TypeError")
    ELSE Returned([dependencies |-> analyzeDependencies(fs),
                   testCoverage |-> analyzeTestCoverage(fs)])

(***************************************************************************)
(* Inputs.  A RepositoryFile is [path, content, size, type]                *)
(* (src/src/lib/types.ts:14-19).  A file without a path is held as one     *)
(* with the empty path: both are dropped by .filter(Boolean).              *)
(***************************************************************************)
NoContent == [parses |-> FALSE, sections |-> <<>>, lines |-> <<>>, captures |-> <<>>]

Json(sections) == [parses |-> TRUE, sections |-> sections, lines |-> <<>>, captures |-> <<>>]

Code(captures) == [parses |-> FALSE, sections |-> <<>>, lines |-> <<>>, captures |-> captures]

Names(key, names) == [key |-> key, names |-> names]

FileWith(path, type, size, content) ==
    [path |-> path, content |-> content, size |-> size, type |-> type]

File(path, type, size) == FileWith(path, type, size, NoContent)

SeqsUpTo(S, n) == UNION {[1..k -> S] : k \in 0..n}

\* paths with a shared directory, a name in two cases, a leading slash, a path that is
\* both a file and a directory prefix, and one path listed twice with different metadata
TreeFiles ==
    { File(<<"ant">>, "text", 1),
      File(<<"ant">>, "markdown", 2),
      File(<<"ant", "/", "bee">>, "text", 1),
      File(<<"ant", "/", "Bee">>, "text", 1),
      File(<<"/", "ant">>, "text", 1),
      File(<<"Bee">>, "text", 1),
      File(<<"src", "/", "App", ".", "jsx">>, "javascript", 1) }

Subsystem(type, paths, confidence) ==
    [name |-> type, type |-> type, files |-> paths, confidence |-> confidence,
     description |-> type]

TreeSubsystemArgs ==
    { <<>>,
      <<Subsystem("frontend", <<<<"src", "/", "App", ".", "jsx">>>>, 40),
        Subsystem("config", <<<<"src", "/", "App", ".", "jsx">>, <<"src">>>>, 25)>> }

\* package.json files that declare react under different sections, one that is not
\* JSON, one with more dependencies than the list keeps, a manifest whose pattern has
\* no g flag, a source file with imports and its test
PackageJson == <<"package", ".", "json">>

ManyNames ==
    << <<"d01">>, <<"d02">>, <<"d03">>, <<"d04">>, <<"d05">>, <<"d06">>, <<"d07">>,
       <<"d08">>, <<"d09">>, <<"d10">> >>

ManyDevNames ==
    << <<"d11">>, <<"d12">>, <<"d13">>, <<"d14">>, <<"d15">>, <<"d16">>, <<"d17">>,
       <<"d18">>, <<"d19">>, <<"d20">>, <<"d21">> >>

RootPackage ==
    FileWith(PackageJson, "json", 2,
             Json(<< Names(<<"dependencies">>, << <<"react">>, <<"lodash">> >>),
                     Names(<<"devDependencies">>, << <<"jest">> >>) >>))

BrokenPackage == FileWith(PackageJson, "json", 1, NoContent)

SubPackage ==
    FileWith(<<"sub", "/", "package", ".", "json">>, "json", 2,
             Json(<< Names(<<"devDependencies">>, << <<"react">> >>),
                     Names(<<"peerDependencies">>, << <<"lodash">> >>) >>))

BigPackage ==
    FileWith(<<"lib", "/", "package", ".", "json">>, "json", 9,
             Json(<< Names(<<"devDependencies">>, ManyDevNames),
                     Names(<<"dependencies">>, ManyNames) >>))

Requirements ==
    FileWith(<<"requirements", ".", "txt">>, "text", 1,
             [NoContent EXCEPT !.captures = << << <<"flask">> >> >>])

ButtonImports ==
    << << <<"react">>, <<"lodash", "/", "fp">>, <<".", "/", "style">>, <<"fs">>,
          <<"lodash", "/", "map">>, <<"jest", "/", "globals">>, <<"lodash", "/", "get">>,
          <<"lodash", "/", "set">>, <<"@", "scope", "/", "pkg">> >> >>

Button ==
    FileWith(<<"src", "/", "components", "/", "Button", ".", "tsx">>, "typescript", 3,
             Code(ButtonImports))

ButtonTest ==
    FileWith(<<"src", "/", "components", "/", "Button", ".", "test", ".", "tsx">>,
             "typescript", 3, Code(<<>>))

LooseTest == FileWith(<<"__", "test", "s", "__", "/", "ant", ".", "js">>, "javascript", 1, Code(<<>>))

AntCs == FileWith(<<"lib", "/", "ant", ".", "cs">>, "csharp", 1, Code(<<>>))

AntTestCs == FileWith(<<"lib", "/", "ant", ".", "test", ".", "cs">>, "csharp", 1, Code(<<>>))

BeePy == FileWith(<<"lib", "/", "Bee", ".", "py">>, "python", 1, Code(<<>>))

BeeTestPy == FileWith(<<"lib", "/", "bee", "_", "test", ".", "py">>, "python", 1, Code(<<>>))

TestsAntJs == FileWith(<<"test", "s", "/", "ant", ".", "js">>, "javascript", 1, Code(<<>>))

\* sources with their tests, in a language the test patterns name and in one they do
\* not, tests known by their directory, and a test whose name differs in case
CoverageFiles ==
    {Button, ButtonTest, LooseTest, AntCs, AntTestCs, BeePy, BeeTestPy, TestsAntJs}

InsightFiles ==
    {RootPackage, BrokenPackage, SubPackage, BigPackage, Requirements, Button, ButtonTest,
     LooseTest}

Assign(name) == name \o <<" ", "=", " ", "\"", "1", "\"">>

Entry(name) == name \o <<":", " ", "^", "1">>

\* requirements.txt's one pattern would capture flask; go.mod's two patterns would
\* capture the module of a require line and the modules of a require block
GoMod ==
    FileWith(<<"go", ".", "mod">>, "text", 1,
             [NoContent EXCEPT !.captures = << << <<"gin">> >>, << <<"testify">>, <<"cobra">> >> >>])

BuildGradle ==
    FileWith(<<"app", "/", "build", ".", "gradle">>, "text", 1,
             [NoContent EXCEPT !.captures = << << <<"okhttp">> >>, << <<"junit">> >> >>])

\* Cargo.toml: a name under both tables, a table the parser does not track
CargoToml ==
    FileWith(<<"Cargo", ".", "toml">>, "text", 1,
             [NoContent EXCEPT !.lines =
                 << <<"[", "package", "]">>, Assign(<<"name">>),
                    <<"[", "dependencies", "]">>, Assign(<<"serde">>), Assign(<<"tokio">>),
                    <<"[", "dev-dependencies", "]">>, Assign(<<"serde">>), Assign(<<"criterion">>),
                    <<"[", "features", "]">>, Assign(<<"default">>) >>])

\* pyproject.toml: python listed as a runtime and as a development dependency
Pyproject ==
    FileWith(<<"pyproject", ".", "toml">>, "text", 1,
             [NoContent EXCEPT !.lines =
                 << <<"[", "tool.poetry.dependencies", "]">>,
                    Assign(<<"python">>), Assign(<<"requests">>),
                    <<"[", "tool.poetry.group.dev.dependencies", "]">>,
                    Assign(<<"python">>), Assign(<<"pytest">>),
                    <<"[", "build-system", "]">>, Assign(<<"requires">>) >>])

\* pubspec.yaml as YAML writes it: "name: version" lines under the two sections, the
\* nested sdk key of flutter, and a top-level key after them
Pubspec ==
    FileWith(<<"pubspec", ".", "yaml">>, "text", 1,
             [NoContent EXCEPT !.lines =
                 << Entry(<<"name">>),
                    <<"dependencies", ":">>, Entry(<<"http">>),
                    <<"flutter", ":">>, <<"sdk", ":", " ", "flutter">>,
                    <<"dev_dependencies", ":">>, Entry(<<"test">>), Entry(<<"sdk">>),
                    <<"flutter", ":">>, Entry(<<"uses-material-design">>) >>])

\* composer.json: php listed under both sections
Composer ==
    FileWith(<<"composer", ".", "json">>, "json", 1,
             Json(<< Names(<<"require">>, << <<"php">>, <<"monolog">> >>),
                     Names(<<"require-dev">>, << <<"php">>, <<"phpunit">> >>) >>))

ManifestFiles == {Requirements, GoMod, BuildGradle, CargoToml, Pyproject, Pubspec, Composer}

\* paths that match several rules of one category, paths of every category, a marker
\* file of the project type, and a file without a path
SubsystemFiles ==
    { File(<<"public", "/", "components", "/", "ant", ".", "tsx">>, "typescript", 1),
      File(<<"src", "/", "components", "/", "Button", ".", "tsx">>, "typescript", 1),
      File(<<"server", "/", "api", "/", "routes", "/", "ant", ".", "ts">>, "typescript", 1),
      File(<<"config", "/", "models", "/", "ant", ".", "json">>, "json", 1),
      File(PackageJson, "json", 1),
      File(<<>>, "text", 1) }

\* what processRepositoryWithAI may be handed: two files at one path, manifests and
\* sources whose order in the array is not the sorted one
EngineFiles == {RootPackage, BrokenPackage, SubPackage, Button}

(***************************************************************************)
(* The analysis cache and the POST /api/analyze route that consults it     *)
(* (src/unnamed/part_004).  The repository holds two caches behind the     *)
(* same two functions: src/src/lib/cache.ts keeps one JSON file per key,   *)
(* src/unnamed/part_009 one row per key in a database table.  Time is in   *)
(* milliseconds, as Date.now() gives it.                                   *)
(***************************************************************************)
Stores == {"file", "database"}

maxAge == 24 * 60 * 60 * 1000

\* no file at the key's path, no row with the key
NoEntry == [stored |-> FALSE]

NoData == [githubUrl |-> <<>>, generatedAt |-> 0, repository |-> Null]

\* encodeURIComponent on the characters a GitHub URL is spelled with: ":" and "/" are
\* escaped, letters, digits, "." and "-" are kept
encodeURIComponent(url) ==
    [i \in 1..Len(url) |->
        IF url[i] = ":" THEN "%3A" ELSE IF url[i] = "/" THEN "%2F" ELSE url[i]]

\* the regular expression github\.com\/([^\/]+)\/([^\/]+?)(?:\.git)?(?:\/|$), on URLs
\* whose owner and repository are one word each
parseGitHubUrl(url) ==
    LET hosts == {i \in 1..(Len(url) - 4) :
                     /\ url[i] = "github.com"
                     /\ url[i + 1] = Slash /\ url[i + 2] # Slash
                     /\ url[i + 3] = Slash /\ url[i + 4] # Slash
                     /\ (i + 4 = Len(url) \/ url[i + 5] = Slash)}
    IN  IF hosts = {}
        THEN Threw("Invalid GitHub URL format")
        ELSE LET i == CHOOSE h \in hosts : \A g \in hosts : h <= g
             IN  Returned([owner |-> url[i + 2], repo |-> url[i + 4]])

\* createWikiData and createFallbackWikiData stamp the result with the current time
WikiData(repositoryInfo, at) ==
    [githubUrl |-> repositoryInfo.html_url, generatedAt |-> at,
     repository |-> repositoryInfo.name]

\* a file cache that never expires
FileFreshAlways(data, at) == TRUE

\* cacheAge < CACHE_CONFIG.maxAge, the age counted from the data's generatedAt
FileFresh(data, at) == at - data.generatedAt < maxAge

\* expires_at > NOW()
RowFresh(row, at) == row.expires_at > at

\* the file cache: a file that cannot be read is a miss, a stale one is unlinked
getCachedAnalysisFromFile(entries, cacheKey, at, readable) ==
    IF ~readable \/ ~entries[cacheKey].stored
    THEN [found |-> FALSE, cache |-> entries]
    ELSE IF FileFresh(entries[cacheKey].data, at)
         THEN [found |-> TRUE, data |-> entries[cacheKey].data, cache |-> entries]
         ELSE [found |-> FALSE, cache |-> [entries EXCEPT ![cacheKey] = NoEntry]]

\* DELETE FROM cache WHERE expires_at < NOW()
cleanupExpiredEntries(rows, at) ==
    [k \in DOMAIN rows |->
        IF rows[k].stored /\ rows[k].expires_at < at THEN NoEntry ELSE rows[k]]

\* the database cache: a failing connection is a miss; one call in ten cleans up first
getCachedAnalysisFromDatabase(rows, cacheKey, at, readable, cleanup) ==
    IF ~readable
    THEN [found |-> FALSE, cache |-> rows]
    ELSE LET kept == IF cleanup THEN cleanupExpiredEntries(rows, at) ELSE rows
             row == kept[cacheKey]
         IN  IF ~row.stored \/ ~RowFresh(row, at)
             THEN [found |-> FALSE, cache |-> kept]
             ELSE IF row.data.githubUrl = <<>> \/ row.data.repository = Null
                  THEN [found |-> FALSE, cache |-> kept]
                  ELSE [found |-> TRUE, data |-> row.data, cache |-> kept]

getCachedAnalysis(kind, entries, cacheKey, at, readable, cleanup) ==
    IF kind = "file"
    THEN getCachedAnalysisFromFile(entries, cacheKey, at, readable)
    ELSE getCachedAnalysisFromDatabase(entries, cacheKey, at, readable, cleanup)

\* cacheAnalysis: the file is written, or the row inserted or updated with
\* expires_at = now + maxAge; a failure is logged and swallowed
cacheAnalysis(kind, entries, cacheKey, data, at, writable) ==
    IF ~writable
    THEN entries
    ELSE IF kind = "file"
         THEN [entries EXCEPT ![cacheKey] = [stored |-> TRUE, data |-> data, created_at |-> at]]
         ELSE [entries EXCEPT ![cacheKey] =
                  [stored |-> TRUE, data |-> data, created_at |-> at,
                   expires_at |-> at + maxAge]]

\* the URLs posted: two repositories and a URL of another host
AntUrl == <<"https", ":", "/", "/", "github.com", "/", "ant", "/", "wiki">>

BeeUrl == <<"https", ":", "/", "/", "github.com", "/", "bee", "/", "wiki">>

OtherUrl == <<"https", ":", "/", "/", "example.com", "/", "ant", "/", "wiki">>

Urls == {AntUrl, BeeUrl, OtherUrl}

CacheKeys == {encodeURIComponent(url) : url \in Urls}

\* the time that passes between two steps
Delays == {1, maxAge + 1}

InitCacheWith(kinds, availabilities) ==
    /\ store \in kinds
    /\ now = 0
    /\ ticks = 0
    /\ available \in availabilities
    /\ cache = [k \in CacheKeys |-> NoEntry]
    /\ requests = <<>>

(***************************************************************************)
(* The caller.  Every call is handed the same files array object           *)
(* (ai.ts:123-134), so what one call does to the array the next one sees.  *)
(***************************************************************************)
NotCalled == [called |-> FALSE]

InitEngine(kinds, arrays, repositories) ==
    /\ filesKind \in kinds
    /\ files \in (IF filesKind = "array" THEN arrays ELSE {<<>>})
    /\ files0 = files
    /\ repository \in repositories
    /\ subsystemAnalysis = NotCalled
    /\ projectTree = NotCalled
    /\ insights = NotCalled
    /\ calls = <<>>

\* the engine on its own: no request is ever posted
InitWith(kinds, arrays, repositories) ==
    /\ InitEngine(kinds, arrays, repositories)
    /\ InitCacheWith({"database"}, {TRUE})

Call(fn, subsystems, outcome) == [fn |-> fn, subsystems |-> subsystems, outcome |-> outcome]

\* buildProjectTree(files, subsystems): files.sort of line 45 throws a TypeError when
\* files is not an array, and otherwise sorts the caller's array in place
CallBuildProjectTree(subsystems) ==
    /\ Len(calls) < MaxCalls
    /\ LET outcome == IF filesKind = "array"
                      THEN Returned(buildProjectTree(files, subsystems))
                      ELSE Threw("TypeError")
       IN  /\ projectTree' = outcome
           /\ calls' = Append(calls, Call("buildProjectTree", subsystems, outcome))
    /\ files' = IF filesKind = "array" THEN SortFiles(files) ELSE files
    /\ UNCHANGED <<filesKind, repository, subsystemAnalysis, insights, files0>>
    /\ UNCHANGED cacheVars

\* analyzeSubsystems(repository, files)
CallAnalyzeSubsystems ==
    /\ Len(calls) < MaxCalls
    /\ LET outcome == analyzeSubsystems(repository, filesKind, files)
       IN  /\ subsystemAnalysis' = outcome
           /\ calls' = Append(calls, Call("analyzeSubsystems", <<>>, outcome))
    /\ UNCHANGED <<files, filesKind, repository, projectTree, insights, files0>>
    /\ UNCHANGED cacheVars

\* analyzeInsights(files)
CallAnalyzeInsights ==
    /\ Len(calls) < MaxCalls
    /\ LET outcome == analyzeInsights(filesKind, files)
       IN  /\ insights' = outcome
           /\ calls' = Append(calls, Call("analyzeInsights", <<>>, outcome))
    /\ UNCHANGED <<files, filesKind, repository, subsystemAnalysis, projectTree, files0>>
    /\ UNCHANGED cacheVars

\* the subsystems the caller hands to buildProjectTree: subsystemAnalysis.subsystems of
\* the classifier's result (ai.ts:131), or the parameter's default before there is one
ClassifierSubsystems ==
    IF subsystemAnalysis.called /\ ~subsystemAnalysis.threw
    THEN subsystemAnalysis.value.subsystems
    ELSE <<>>

Kinds == {"array", "null", "object"}

Init == InitWith(Kinds, SeqsUpTo(EngineFiles, MaxFiles), {NoRepository, Repository(<<"TypeScript">>)})

Next ==
    \/ CallAnalyzeSubsystems
    \/ CallBuildProjectTree(ClassifierSubsystems)
    \/ CallAnalyzeInsights

Spec == Init /\ [][Next]_vars

InitTree == InitWith({"array"}, SeqsUpTo(TreeFiles, MaxFiles), {Repository(<<>>)})

NextTree == \E subsystems \in TreeSubsystemArgs : CallBuildProjectTree(subsystems)

SpecTree == InitTree /\ [][NextTree]_vars

InitSubsystems ==
    InitWith(Kinds, SeqsUpTo(SubsystemFiles, MaxFiles),
             {NoRepository, Repository(<<>>), Repository(<<"TypeScript">>)})

SpecSubsystems == InitSubsystems /\ [][CallAnalyzeSubsystems]_vars

\* every package.json that lists each of two names under any of the four sections
SectionKeys == <<"dependencies", "devDependencies", "peerDependencies", "optionalDependencies">>

PackageNames == << <<"react">>, <<"jest">> >>

PackageListing(listed) ==
    FileWith(PackageJson, "json", 1,
             Json([k \in 1..Len(SectionKeys) |->
                      Names(<<SectionKeys[k]>>,
                            SelectSeq(PackageNames, LAMBDA name : SectionKeys[k] \in listed[name]))]))

Listings == [{PackageNames[k] : k \in 1..Len(PackageNames)} -> SUBSET {SectionKeys[k] : k \in 1..Len(SectionKeys)}]

InitPackage ==
    InitWith({"array"}, {<<PackageListing(listed)>> : listed \in Listings}, {Repository(<<>>)})

SpecPackage == InitPackage /\ [][CallAnalyzeInsights]_vars

\* file lists told by how many paths match each rule: paths that match the frontend
\* directory rule, the extension rule, the asset rule, and the first two at once
RulePaths ==
    << <<"components", "/", "ant", ".", "js">>,
       <<"ant", ".", "tsx">>,
       <<"public", "/", "ant", ".", "json">>,
       <<"src", "/", "components", "/", "Button", ".", "tsx">> >>

Copies(path, n) == [k \in 1..n |-> File(path, "text", 1)]

FilesByCount(counts) ==
    Copies(RulePaths[1], counts[1]) \o Copies(RulePaths[2], counts[2])
        \o Copies(RulePaths[3], counts[3]) \o Copies(RulePaths[4], counts[4])

InitScores ==
    InitWith({"array"},
             {FilesByCount(counts) : counts \in [1..Len(RulePaths) -> 0..MaxMatches]},
             {Repository(<<>>)})

SpecScores == InitScores /\ [][CallAnalyzeSubsystems]_vars

InitCoverage == InitWith({"array"}, SeqsUpTo(CoverageFiles, MaxFiles), {Repository(<<>>)})

SpecCoverage == InitCoverage /\ [][CallAnalyzeInsights]_vars

InitInsights == InitWith({"array"}, SeqsUpTo(InsightFiles, MaxFiles), {Repository(<<>>)})

SpecInsights == InitInsights /\ [][CallAnalyzeInsights]_vars

\* file lists told by how many source files and which test files they hold: a source in
\* src/ listed before the sources in lib/, tests that name the lib/ source or not, and a
\* built copy
AntJs == File(<<"lib", "/", "ant", ".", "js">>, "javascript", 1)

AntTestJs == File(<<"lib", "/", "ant", ".", "test", ".", "js">>, "javascript", 1)

BeeTestJs == File(<<"lib", "/", "bee", ".", "test", ".", "js">>, "javascript", 1)

DistAntJs == File(<<"dist", "/", "ant", ".", "js">>, "javascript", 1)

FilesBySources(withButton, sources, tests, withDist) ==
    (IF withButton THEN <<Button>> ELSE <<>>) \o [k \in 1..sources |-> AntJs]
        \o tests \o (IF withDist THEN <<DistAntJs>> ELSE <<>>)

InitCounts ==
    InitWith({"array"},
             {FilesBySources(withButton, sources, tests, withDist) :
                 withButton \in BOOLEAN, sources \in 0..MaxSources,
                 tests \in SeqsUpTo({AntTestJs, BeeTestJs}, MaxTests), withDist \in BOOLEAN},
             {Repository(<<>>)})

SpecCounts == InitCounts /\ [][CallAnalyzeInsights]_vars

\* file lists told by which marker files they hold: the markers of every project type, a
\* package.json below the root, and a file without a path
Markers ==
    << File(PackageJson, "json", 1),
       File(<<"next", ".", "config", ".", "js">>, "javascript", 1),
       File(<<"src", "/", "components", "/", "Button", ".", "tsx">>, "typescript", 1),
       File(<<"server", "/", "api", "/", "routes", "/", "ant", ".", "ts">>, "typescript", 1),
       File(<<"requirements", ".", "txt">>, "text", 1),
       File(<<"Cargo", ".", "toml">>, "text", 1),
       File(<<"go", ".", "mod">>, "text", 1),
       File(<<"pom", ".", "xml">>, "text", 1),
       File(<<"app", "/", "build", ".", "gradle">>, "text", 1),
       File(<<"sub", "/", "package", ".", "json">>, "json", 1),
       File(<<>>, "text", 1) >>

MarkedFiles(chosen) == SelectSeq(Markers, LAMBDA file : file \in chosen)

InitProjectType ==
    InitWith({"array"},
             {MarkedFiles(chosen) : chosen \in SUBSET {Markers[k] : k \in 1..Len(Markers)}},
             {Repository(<<>>), Repository(<<"TypeScript">>)})

SpecProjectType == InitProjectType /\ [][CallAnalyzeSubsystems]_vars

InitManifests == InitWith({"array"}, SeqsUpTo(ManifestFiles, MaxFiles), {Repository(<<>>)})

SpecManifests == InitManifests /\ [][CallAnalyzeInsights]_vars

(***************************************************************************)
(* POST /api/analyze.  The handler is asynchronous: other requests are     *)
(* served while it awaits GitHub, the model and the cache, so a request    *)
(* is answered in up to three steps.                                       *)
(***************************************************************************)
Pending == [status |-> 0, success |-> FALSE]

Success(cacheKey) ==
    [status |-> 200, success |-> TRUE, redirectUrl |-> <<"/", "repo", "/">> \o cacheKey]

Failure(status, error) == [status |-> status, success |-> FALSE, error |-> error]

Answered == {r \in DOMAIN requests : requests[r].pc = "answered"}

\* lines 11-47: the body is validated and the cache consulted; a hit is answered at once
PostReceive(githubUrl, cleanup) ==
    /\ Len(requests) < MaxRequests
    /\ LET cacheKey == encodeURIComponent(githubUrl)
           got == getCachedAnalysis(store, cache, cacheKey, now, available, cleanup)
           request == [githubUrl |-> githubUrl, receivedAt |-> now, after |-> Answered,
                       pc |-> "answered", calls |-> <<>>, fromCache |-> FALSE,
                       data |-> NoData, answer |-> Pending]
       IN  IF githubUrl = <<>>
           THEN /\ requests' = Append(requests,
                        [request EXCEPT !.answer = Failure(400, "GitHub URL is required")])
                /\ cache' = cache
           ELSE IF parseGitHubUrl(githubUrl).threw
           THEN /\ requests' = Append(requests,
                        [request EXCEPT !.answer = Failure(400, "Invalid GitHub URL format")])
                /\ cache' = cache
           ELSE IF got.found
           THEN /\ requests' = Append(requests,
                        [request EXCEPT !.fromCache = TRUE, !.data = got.data,
                                        !.answer = Success(cacheKey)])
                /\ cache' = got.cache
           ELSE /\ requests' = Append(requests, [request EXCEPT !.pc = "fetching"])
                /\ cache' = got.cache
    /\ UNCHANGED <<store, now, ticks, available>>
    /\ UNCHANGED engineVars

FetchOutcomes == {"ok", "Not Found", "no files"}

\* lines 49-63 and the catch of lines 73-112: the repository is fetched and analysed
PostFetch(r, outcome) ==
    /\ requests[r].pc = "fetching"
    /\ LET parsed == parseGitHubUrl(requests[r].githubUrl).value
           repositoryInfo == [name |-> parsed.repo, html_url |-> requests[r].githubUrl]
           failed(made, answer) ==
               [requests EXCEPT ![r].pc = "answered", ![r].calls = made,
                                ![r].answer = answer]
       IN  requests' =
               CASE outcome = "Not Found" ->
                        failed(<<"fetchRepositoryInfo">>,
                               Failure(404, "Repository not found or is private"))
                 [] outcome = "no files" ->
                        failed(<<"fetchRepositoryInfo", "fetchRepositoryContent">>,
                               Failure(400, "No analyzable files found in repository"))
                 [] OTHER ->
                        [requests EXCEPT
                            ![r].pc = "caching",
                            ![r].calls = <<"fetchRepositoryInfo", "fetchRepositoryContent",
                                           "processRepositoryWithAI">>,
                            ![r].data = WikiData(repositoryInfo, now)]
    /\ UNCHANGED <<store, now, ticks, available, cache>>
    /\ UNCHANGED engineVars

\* lines 65-72: the result is cached, whether or not the write succeeds, and answered
PostCache(r) ==
    /\ requests[r].pc = "caching"
    /\ LET cacheKey == encodeURIComponent(requests[r].githubUrl)
       IN  /\ cache' = cacheAnalysis(store, cache, cacheKey, requests[r].data, now, available)
           /\ requests' = [requests EXCEPT ![r].pc = "answered",
                                           ![r].answer = Success(cacheKey)]
    /\ UNCHANGED <<store, now, ticks, available>>
    /\ UNCHANGED engineVars

\* time passes
Tick(delay) ==
    /\ ticks < MaxTicks
    /\ now' = now + delay
    /\ ticks' = ticks + 1
    /\ UNCHANGED <<store, available, cache, requests>>
    /\ UNCHANGED engineVars

InitCache ==
    /\ InitEngine({"array"}, {<<>>}, {Repository(<<>>)})
    /\ InitCacheWith(Stores, BOOLEAN)

NextCache ==
    \/ \E githubUrl \in Urls, cleanup \in BOOLEAN : PostReceive(githubUrl, cleanup)
    \/ \E r \in DOMAIN requests, outcome \in FetchOutcomes : PostFetch(r, outcome)
    \/ \E r \in DOMAIN requests : PostCache(r)
    \/ \E delay \in Delays : Tick(delay)

SpecCache == InitCache /\ [][NextCache]_vars

(***************************************************************************)
(* Properties of buildProjectTree.                                         *)
(***************************************************************************)
PathsOf(fs) == {fs[k].path : k \in 1..Len(fs)}

Segments(p) == FilterBoolean(Split(p, Slash))

\* the directory prefixes of a path: its first i segments, for every i short of all
DirectoryPrefixes(p) ==
    {Join(SubSeq(Segments(p), 1, i), Slash) : i \in 1..(Len(Segments(p)) - 1)}

AllDirectoryPrefixes(fs) == UNION {DirectoryPrefixes(p) : p \in PathsOf(fs)}

\* a path with no empty segment: not empty, no leading, trailing or doubled "/"
RegularPath(p) == Join(Segments(p), Slash) = p /\ p # <<>>

TreeReturned == projectTree.called /\ ~projectTree.threw

\* C1 as stated: totalFiles is the number of distinct paths of the input and
\* totalDirectories the number of distinct proper path prefixes of those paths.
C1_CountsAsStated ==
    TreeReturned =>
        /\ projectTree.value.totalFiles = Cardinality(PathsOf(files))
        /\ projectTree.value.totalDirectories = Cardinality(AllDirectoryPrefixes(files))

\* C1 amended: when no path has an empty segment, totalFiles is the number of distinct
\* paths, and totalDirectories is the number of distinct proper path prefixes that are
\* not themselves the path of an input file.
C1_Counts ==
    (TreeReturned /\ \A p \in PathsOf(files) : RegularPath(p)) =>
        /\ projectTree.value.totalFiles = Cardinality(PathsOf(files))
        /\ projectTree.value.totalDirectories =
               Cardinality(AllDirectoryPrefixes(files) \ PathsOf(files))

\* a file list with a path listed twice and a path that is both a file and a
\* directory prefix has been counted
C1_Witness ==
    /\ TreeReturned
    /\ \A p \in PathsOf(files) : RegularPath(p)
    /\ Cardinality(PathsOf(files)) < Len(files)
    /\ AllDirectoryPrefixes(files) \cap PathsOf(files) # {}

ChildNodes(nodes, key) ==
    [k \in 1..Len(nodes[key].children) |-> nodes[key \o <<nodes[key].children[k]>>]]

InsightsReturned == insights.called /\ ~insights.threw

\* C3: the dependencies list returned by analyzeInsights has at most 20 entries, and
\* its entries are in non-increasing order of count.
C3_DependenciesCappedAndSorted ==
    InsightsReturned =>
        LET deps == insights.value.dependencies
        IN  /\ Len(deps) <= 20
            /\ \A i, j \in 1..Len(deps) : i < j => deps[i].count >= deps[j].count

\* the manifests name more than 20 packages, and the list returned is full and holds
\* entries of different counts
C3_Witness ==
    /\ InsightsReturned
    /\ Len(SetAll(parseManifestDependencies(files))) > 20
    /\ Len(insights.value.dependencies) = 20
    /\ insights.value.dependencies[1].count > insights.value.dependencies[20].count

\* C4: testCoverage.percentage is an integer from 0 to 100, and it is 0 whenever
\* testCoverage.totalFiles is 0.
C4_PercentageInRange ==
    InsightsReturned =>
        LET testCoverage == insights.value.testCoverage
        IN  /\ testCoverage.percentage \in 0..100
            /\ testCoverage.totalFiles = 0 => testCoverage.percentage = 0

\* test files and no source file
C4_Witness ==
    /\ InsightsReturned
    /\ insights.value.testCoverage.totalFiles = 0
    /\ Len(insights.value.testCoverage.testFiles) > 0

RemoveAt(fs, i) == SubSeq(fs, 1, i - 1) \o SubSeq(fs, i + 1, Len(fs))

\* C8: analyzeInsights returns normally, and the dependencies it returns are those of
\* the file list without any one manifest that fails to parse.
C8_MalformedManifestSkipped ==
    insights.called =>
        /\ ~insights.threw
        /\ \A i \in 1..Len(files) :
              ParseManifest(files[i]).threw =>
                  insights.value.dependencies = analyzeDependencies(RemoveAt(files, i))

\* a package.json that is not JSON comes before a manifest that names dependencies,
\* and dependencies are returned
C8_Witness ==
    /\ InsightsReturned
    /\ \E i, j \in 1..Len(files) :
          /\ i < j
          /\ files[i] = BrokenPackage
          /\ ParseManifest(files[j]).deps # <<>>
    /\ insights.value.dependencies # <<>>

(***************************************************************************)
(* Properties of analyzeSubsystems.                                        *)
(***************************************************************************)
SubsystemsReturned == subsystemAnalysis.called /\ ~subsystemAnalysis.threw

\* C5: every SubsystemInfo returned by analyzeSubsystems has a confidence from 0 to 1,
\* and no two of them have the same type.
C5_ConfidenceBoundedTypesUnique ==
    SubsystemsReturned =>
        LET subsystems == subsystemAnalysis.value.subsystems
        IN  /\ \A k \in 1..Len(subsystems) :
                  subsystems[k].confidence >= 0 /\ subsystems[k].confidence <= ScoreOne
            /\ \A i, j \in 1..Len(subsystems) :
                  i # j => subsystems[i].type # subsystems[j].type

FilePathsOf(fs) == FilterBoolean([k \in 1..Len(fs) |-> fs[k].path])

\* the rule scores of a category add up to more than 1, and the category is returned
C5_Witness ==
    /\ SubsystemsReturned
    /\ \E k \in 1..Len(SUBSYSTEM_CONFIGS) :
          /\ Sum(RuleScores(FilePathsOf(files), SUBSYSTEM_CONFIGS[k])) > ScoreOne
          /\ \E n \in 1..Len(subsystemAnalysis.value.subsystems) :
                /\ subsystemAnalysis.value.subsystems[n].type = SUBSYSTEM_CONFIGS[k].type
                /\ subsystemAnalysis.value.subsystems[n].confidence = ScoreOne

\* a file list that is missing, not an array or empty, or whose files have no path
DegenerateFiles == filesKind # "array" \/ \A k \in 1..Len(files) : files[k].path = <<>>

C6_SameResultTwice ==
    \A i \in 1..(Len(calls) - 1) :
        (calls[i].fn = calls[i + 1].fn /\ calls[i].subsystems = calls[i + 1].subsystems) =>
            calls[i].outcome = calls[i + 1].outcome

\* buildProjectTree was called twice in a row on an array that holds two files of one
\* path and that the first call found out of order
C6_Witness ==
    /\ Len(calls) = 2
    /\ calls[1].fn = "buildProjectTree" /\ calls[2].fn = "buildProjectTree"
    /\ calls[1].subsystems = calls[2].subsystems
    /\ ~calls[2].outcome.threw
    /\ files # files0
    /\ Cardinality(PathsOf(files)) < Len(files)

\* C9: the caller's files array holds the same elements in the same order as before
\* the calls.
C9_InputNotMutated == files = files0

\* C10: the results of analyzeInsights and analyzeSubsystems are those of a call made
\* before any other, wherever among the calls of the three entry points they are made.
C10_OrderFree ==
    /\ insights.called => insights = analyzeInsights(filesKind, files0)
    /\ subsystemAnalysis.called =>
           subsystemAnalysis = analyzeSubsystems(repository, filesKind, files0)


CountsOf(deps, name) == {deps[k].count : k \in {k \in 1..Len(deps) : deps[k].name = name}}

\* C11: every name is in the dependency list at most once; the count of a name that a
\* manifest declares is the maximum of a manifest weight and the import count, never
\* their sum, and the count of a name found by imports alone is the import count.
C11_MergeByMaximum ==
    InsightsReturned =>
        LET deps == insights.value.dependencies
            manifestDeps == parseManifestDependencies(files)
            importDeps == analyzeImportStatements(files)
        IN  /\ \A i, j \in 1..Len(deps) : i # j => deps[i].name # deps[j].name
            /\ \A k \in 1..Len(deps) :
                  LET weights == CountsOf(manifestDeps, deps[k].name)
                      counts == CountsOf(importDeps, deps[k].name)
                  IN  IF weights = {} THEN deps[k].count \in counts
                      ELSE deps[k].count \in
                               {Max(w, c) : w \in weights, c \in counts \cup {0}}

\* a name is declared by a manifest and imported more often than the manifest weighs,
\* and another is imported less often than its manifest weight
C11_Witness ==
    /\ InsightsReturned
    /\ \E k \in 1..Len(insights.value.dependencies) :
          LET dep == insights.value.dependencies[k]
              weights == CountsOf(parseManifestDependencies(files), dep.name)
              counts == CountsOf(analyzeImportStatements(files), dep.name)
          IN  weights # {} /\ dep.count \in counts /\ \E w \in weights : dep.count > w
    /\ \E k \in 1..Len(insights.value.dependencies) :
          LET dep == insights.value.dependencies[k]
              weights == CountsOf(parseManifestDependencies(files), dep.name)
              counts == CountsOf(analyzeImportStatements(files), dep.name)
          IN  counts # {} /\ dep.count \in weights /\ \A c \in counts : dep.count > c


\* the sections of the one package.json of the file list that list a name
SectionsListing(name) ==
    {files[1].content.sections[k].key[1] :
        k \in {k \in 1..Len(files[1].content.sections) :
                  \E n \in 1..Len(files[1].content.sections[k].names) :
                      files[1].content.sections[k].names[n] = name}}

\* 3 for a name listed under dependencies, 2 for one listed only under devDependencies,
\* 1 for one listed only under peerDependencies or optionalDependencies
RankClass(name) ==
    IF "dependencies" \in SectionsListing(name) THEN 3
    ELSE IF SectionsListing(name) = {"devDependencies"} THEN 2
    ELSE IF SectionsListing(name) # {}
            /\ SectionsListing(name) \subseteq {"peerDependencies", "optionalDependencies"}
    THEN 1
    ELSE 0

\* C12: for a file list of one package.json, a name listed under dependencies comes
\* before every name listed only under devDependencies, and that before every name
\* listed only under peerDependencies or optionalDependencies.
C12_SectionsRanked ==
    (InsightsReturned /\ Len(files) = 1 /\ files[1].path = PackageJson) =>
        LET deps == insights.value.dependencies
        IN  \A i, j \in 1..Len(deps) :
                (RankClass(deps[j].name) > 0
                 /\ RankClass(deps[i].name) > RankClass(deps[j].name)) => i < j


(***************************************************************************)
(* Properties of analyzeTestCoverage.                                      *)
(***************************************************************************)
NameOf(path) == Last(Split(path, Slash))

\* a file name's extension, when it is one of source code
CodeExtensionOf(path) ==
    IF Len(NameOf(path)) >= 2 /\ NameOf(path)[Len(NameOf(path)) - 1] = Dot
          /\ Last(NameOf(path)) \in CodeExtensions
    THEN Last(NameOf(path))
    ELSE ""

\* the file name without its extension
BaseName(path) ==
    IF CodeExtensionOf(path) = "" THEN NameOf(path)
    ELSE SubSeq(NameOf(path), 1, Len(NameOf(path)) - 2)

\* test is the path X.test.<ext> or X.spec.<ext> of the source file path X.<ext>
TestOf(source, test) ==
    /\ CodeExtensionOf(source) # ""
    /\ \E t \in {"test", "spec"} :
          test = SubSeq(source, 1, Len(source) - 2) \o <<Dot, t, Dot, Last(source)>>

InSeq(seq, x) == \E k \in 1..Len(seq) : seq[k] = x

\* C13: of a source file X.<ext> and a file X.test.<ext> or X.spec.<ext>, the second is
\* in testFiles and is not counted as a source file, and the first is counted as a
\* source file and is not in untestedFiles; and no test file's path contains, in any
\* case, the base name of a file in untestedFiles.
C13_TestsAndSourcesTold ==
    InsightsReturned =>
        LET testCoverage == insights.value.testCoverage
            tests == {k \in 1..Len(files) : \E i \in 1..Len(files) :
                         TestOf(files[i].path, files[k].path)}
            sources == {k \in 1..Len(files) : \E j \in 1..Len(files) :
                           TestOf(files[k].path, files[j].path)}
        IN  /\ \A k \in tests : InSeq(testCoverage.testFiles, files[k].path)
            /\ \A k \in sources : ~InSeq(testCoverage.untestedFiles, files[k].path)
            /\ testCoverage.totalFiles >= Cardinality(sources)
            /\ testCoverage.totalFiles <= Len(files) - Cardinality(tests)
            /\ \A u \in 1..Len(testCoverage.untestedFiles) :
                  \A t \in 1..Len(testCoverage.testFiles) :
                      ~Includes(ToLowerCase(testCoverage.testFiles[t]),
                                ToLowerCase(BaseName(testCoverage.untestedFiles[u])))


(***************************************************************************)
(* Properties of the subsystem scores.                                     *)
(***************************************************************************)
\* the number of file paths that contain one of a rule's match substrings
MatchCount(paths, rule) ==
    Cardinality({k \in 1..Len(paths) :
                    \E m \in 1..Len(rule.match) : Includes(paths[k], rule.match[m])})

\* min(1, sum over the rules of weight * min(matchCount / 5, 1)), in units of 1/50
ScoreOf(paths, config) ==
    Min(ScoreOne,
        Sum([r \in 1..Len(config.patterns) |->
                config.patterns[r].weight
                    * Min(MatchCount(paths, config.patterns[r]), FILE_COUNT_NORMALIZER)]))

Reported(type) ==
    \E n \in 1..Len(subsystemAnalysis.value.subsystems) :
        subsystemAnalysis.value.subsystems[n].type = type

\* C14: a category is reported if and only if a file path matches one of its rules and
\* its score capped at 1 is at least 0.4; with five or more paths that match the
\* frontend directory rule, "frontend" is reported.
C14_ReportedIffThreshold ==
    (SubsystemsReturned /\ filesKind = "array" /\ FilePathsOf(files) # <<>>) =>
        /\ \A k \in 1..Len(SUBSYSTEM_CONFIGS) :
              Reported(SUBSYSTEM_CONFIGS[k].type) <=>
                  /\ \E r \in 1..Len(SUBSYSTEM_CONFIGS[k].patterns) :
                        MatchCount(FilePathsOf(files), SUBSYSTEM_CONFIGS[k].patterns[r]) > 0
                  /\ ScoreOf(FilePathsOf(files), SUBSYSTEM_CONFIGS[k]) >= CONFIDENCE_THRESHOLD
        /\ MatchCount(FilePathsOf(files), SUBSYSTEM_CONFIGS[1].patterns[1]) >= 5 =>
               Reported("frontend")


(***************************************************************************)
(* More properties of buildProjectTree.                                    *)
(***************************************************************************)
Greatest(S) == CHOOSE n \in S : \A m \in S : m <= n

AppJsx == <<"src", "/", "App", ".", "jsx">>

\* C15: maxDepth is the greatest number of non-empty segments of an input path, 0 for
\* the empty list, and the depth of the deepest node below the root; the one path
\* src/App.jsx gives root, the directory src and the file App.jsx of the input file's
\* type, with maxDepth 2.
C15_MaxDepth ==
    TreeReturned =>
        LET tree == projectTree.value
        IN  /\ tree.maxDepth = Greatest({Len(Segments(p)) : p \in PathsOf(files)} \cup {0})
            /\ tree.maxDepth = Greatest({Len(key) : key \in DOMAIN tree.nodes})
            /\ PathsOf(files) = {AppJsx} =>
                  /\ tree.maxDepth = 2
                  /\ DOMAIN tree.nodes = {<<>>, <<<<"src">>>>, <<<<"src">>, <<"App", ".", "jsx">>>>}
                  /\ tree.nodes[<<>>].children = <<<<"src">>>>
                  /\ tree.nodes[<<<<"src">>>>].type = "directory"
                  /\ tree.nodes[<<<<"src">>>>].children = <<<<"App", ".", "jsx">>>>
                  /\ tree.nodes[<<<<"src">>, <<"App", ".", "jsx">>>>].type = "file"
                  /\ tree.nodes[<<<<"src">>, <<"App", ".", "jsx">>>>].fileType = files[1].type

\* a tree of src/App.jsx and of a path with a leading slash
C15_Witness ==
    /\ TreeReturned
    /\ AppJsx \in PathsOf(files)
    /\ <<"/", "ant">> \in PathsOf(files)
    /\ projectTree.value.maxDepth = 2


EmptyTree == [nodes |-> (<<>> :> RootNode), totalFiles |-> 0, totalDirectories |-> 0, maxDepth |-> 0]

\* C16: buildProjectTree and analyzeInsights do not throw, and for an empty or non-array
\* file list they return the root alone with all counts 0, an empty dependency list
\* and percentage 0.
C16_Total ==
    /\ projectTree.called =>
          /\ ~projectTree.threw
          /\ (filesKind # "array" \/ files = <<>>) => projectTree.value = EmptyTree
    /\ insights.called =>
          /\ ~insights.threw
          /\ (filesKind # "array" \/ files = <<>>) =>
                 /\ insights.value.dependencies = <<>>
                 /\ insights.value.testCoverage.percentage = 0

(***************************************************************************)
(* The analysis cache.                                                     *)
(***************************************************************************)
\* request b was received after request a had been answered with success, for the same URL
LaterPost(a, b) ==
    /\ a \in requests[b].after
    /\ requests[a].answer.success
    /\ requests[b].githubUrl = requests[a].githubUrl

\* request b was received less than 24 hours after the analysis that a answered with
\* was generated
InWindow(a, b) == requests[b].receivedAt - requests[a].data.generatedAt < maxAge

FromCache(a, b) ==
    /\ requests[b].fromCache
    /\ requests[b].calls = <<>>
    /\ requests[b].answer.success
    /\ requests[b].answer.redirectUrl = requests[a].answer.redirectUrl

\* another request for the same URL was being handled while request a was
Overlapped(a) ==
    \E c \in DOMAIN requests :
        /\ c # a
        /\ requests[c].githubUrl = requests[a].githubUrl
        /\ c \notin requests[a].after
        /\ a \notin requests[c].after

\* the step receives a request and answers it from the cache with an entry that was
\* stored more than 24 hours before
ReturnsOldEntry ==
    /\ Len(requests') = Len(requests) + 1
    /\ requests'[Len(requests')].fromCache
    /\ LET entry == cache[encodeURIComponent(requests'[Len(requests')].githubUrl)]
       IN  ~entry.stored \/ now - entry.created_at > maxAge

ParentKey(key) == SubSeq(key, 1, Len(key) - 1)

NoTwoChildrenOfOneName(nodes) ==
    \A key \in DOMAIN nodes :
        \A i, j \in 1..Len(nodes[key].children) :
            nodes[key].children[i] = nodes[key].children[j] => i = j

OneNodePerPath(nodes) ==
    \A key, other \in DOMAIN nodes : nodes[key].path = nodes[other].path => key = other

\* C18, as stated: the root's path is empty, every other node's path is its parent's
\* path, "/" and its name, no two nodes have one path and no directory has two children
\* of one name
C18_PathsAsStated ==
    TreeReturned =>
        LET nodes == projectTree.value.nodes
        IN  /\ nodes[<<>>].path = <<>>
            /\ \A key \in DOMAIN nodes \ {<<>>} :
                   nodes[key].path = nodes[ParentKey(key)].path \o <<Slash>> \o nodes[key].name
            /\ OneNodePerPath(nodes)
            /\ NoTwoChildrenOfOneName(nodes)

\* C18, amended: the root's path is empty, the path of a child of the root is its name,
\* every deeper node's path is its parent's path, "/" and its name, no two nodes have
\* one path and no directory has two children of one name
C18_Paths ==
    TreeReturned =>
        LET nodes == projectTree.value.nodes
        IN  /\ nodes[<<>>].path = <<>>
            /\ \A key \in DOMAIN nodes \ {<<>>} :
                   nodes[key].path =
                       IF Len(key) = 1
                       THEN nodes[key].name
                       ELSE nodes[ParentKey(key)].path \o <<Slash>> \o nodes[key].name
            /\ OneNodePerPath(nodes)
            /\ NoTwoChildrenOfOneName(nodes)

\* a tree with a child of the root and a deeper node, built from a list that names one
\* path twice
C18_Witness ==
    /\ TreeReturned
    /\ \E key \in DOMAIN projectTree.value.nodes : Len(key) = 2
    /\ \E i, j \in 1..Len(files) : i # j /\ files[i].path = files[j].path

(***************************************************************************)
(* The confidence and the files of a reported subsystem.                   *)
(***************************************************************************)
ConfigOf(type) ==
    SUBSYSTEM_CONFIGS[CHOOSE k \in 1..Len(SUBSYSTEM_CONFIGS) : SUBSYSTEM_CONFIGS[k].type = type]

\* the paths that contain a match substring of one of the category's rules
MatchedBy(paths, config) ==
    {paths[k] : k \in {n \in 1..Len(paths) :
                          \E r \in 1..Len(config.patterns) :
                              \E m \in 1..Len(config.patterns[r].match) :
                                  Includes(paths[n], config.patterns[r].match[m])}}

\* C19: the confidence of a reported subsystem is min(1, the sum over the category's
\* rules of weight * min(matchCount / 5, 1)), a rule without a match adding nothing, and
\* its files are the paths matched by any of the rules, each listed once
C19_ConfidenceAndFiles ==
    (SubsystemsReturned /\ filesKind = "array") =>
        \A n \in 1..Len(subsystemAnalysis.value.subsystems) :
            LET subsystem == subsystemAnalysis.value.subsystems[n]
                config == ConfigOf(subsystem.type)
            IN  /\ subsystem.confidence = ScoreOf(FilePathsOf(files), config)
                /\ {subsystem.files[k] : k \in 1..Len(subsystem.files)}
                       = MatchedBy(FilePathsOf(files), config)
                /\ \A i, j \in 1..Len(subsystem.files) :
                       subsystem.files[i] = subsystem.files[j] => i = j

\* the frontend is reported with a confidence below 1 from a list in which more than
\* five paths match one of its rules, none matches another, and a path occurs twice
C19_Witness ==
    /\ SubsystemsReturned /\ filesKind = "array"
    /\ \E n \in 1..Len(subsystemAnalysis.value.subsystems) :
          LET subsystem == subsystemAnalysis.value.subsystems[n]
              config == ConfigOf(subsystem.type)
          IN  /\ subsystem.confidence < ScoreOne
              /\ \E r \in 1..Len(config.patterns) :
                     MatchCount(FilePathsOf(files), config.patterns[r]) > FILE_COUNT_NORMALIZER
              /\ \E r \in 1..Len(config.patterns) :
                     MatchCount(FilePathsOf(files), config.patterns[r]) = 0
              /\ Len(subsystem.files) < Len(files)

(***************************************************************************)
(* Import references.                                                      *)
(***************************************************************************)
\* the files of the list whose extension names JavaScript or TypeScript
JsFiles ==
    {k \in 1..Len(files) :
        /\ \E x \in ImportExtensions : EndsWith(files[k].path, <<Dot, x>>)
        /\ LET ext == ToLowerCase(Extension(files[k].path))
           IN  Len(ext) = 1 /\ ext[1] \in DOMAIN EXT_TO_LANG /\ EXT_TO_LANG[ext[1]] = "js"}

\* the import references captured in a file, over all the patterns of its language
ReferencesOf(k) ==
    Flatten([n \in 1..ImportPatternCount["js"] |-> CapturesOf(files[k].content, n)])

\* a reference that is neither relative, absolute nor of the standard library
ExternalReference(ref) ==
    /\ ref # <<>>
    /\ ~StartsWith(ref, <<Dot>>) /\ ~StartsWith(ref, <<Slash>>)
    /\ ~IsStdLib("js", ref)

\* the package identifier of a JavaScript reference: the first path segment, or
\* @scope/name for a reference that begins with "@"
JsPackage(ref) ==
    IF ref[1] = "@"
    THEN Join(SubSeq(Split(ref, Slash), 1, Min(2, Len(Split(ref, Slash)))), Slash)
    ELSE Split(ref, Slash)[1]

\* how many references of the file list name a package
ReferencesTo(name) ==
    Cardinality({kn \in UNION {{<<k, n>> : n \in 1..Len(ReferencesOf(k))} : k \in JsFiles} :
                    /\ ExternalReference(ReferencesOf(kn[1])[kn[2]])
                    /\ JsPackage(ReferencesOf(kn[1])[kn[2]]) = name})

\* C20: every import reference of a JavaScript or TypeScript file that is neither
\* relative, absolute nor of the standard library adds one to the count of its package
\* identifier: while the dependency list is below its cap, the package is listed with
\* at least as many uses as there are references to it
C20_ReferencesCounted ==
    (InsightsReturned /\ Len(insights.value.dependencies) < IMPORT_CAP) =>
        \A k \in JsFiles :
            \A n \in 1..Len(ReferencesOf(k)) :
                ExternalReference(ReferencesOf(k)[n]) =>
                    \E d \in 1..Len(insights.value.dependencies) :
                        /\ insights.value.dependencies[d].name = JsPackage(ReferencesOf(k)[n])
                        /\ insights.value.dependencies[d].count
                               >= ReferencesTo(JsPackage(ReferencesOf(k)[n]))

(***************************************************************************)
(* Manifests read by line patterns and by sections.                        *)
(***************************************************************************)
\* a dependency of the returned list with this name and this count
Listed(name, count) ==
    \E d \in 1..Len(insights.value.dependencies) :
        /\ insights.value.dependencies[d].name = name
        /\ insights.value.dependencies[d].count = count

\* the files of the list with this lower-case file name
FilesNamed(fileName) == {k \in 1..Len(files) : ToLowerCase(Last(Split(files[k].path, Slash))) = fileName}

\* everything the patterns of a manifest capture in a file
AllCaptures(k) ==
    UNION {{files[k].content.captures[n][i] : i \in 1..Len(files[k].content.captures[n])} :
              n \in 1..Len(files[k].content.captures)}

\* C21: a manifest read by line patterns reports every captured group with the weight of
\* its pattern: each package of requirements.txt with weight 7, each module of go.mod
\* and each artifact of build.gradle with weight 6.
C21_CapturedGroupsReported ==
    InsightsReturned =>
        /\ \A k \in FilesNamed(<<"requirements", ".", "txt">>) :
              \A name \in AllCaptures(k) : Listed(name, 7)
        /\ \A k \in FilesNamed(<<"go", ".", "mod">>) :
              \A name \in AllCaptures(k) : Listed(name, 6)
        /\ \A k \in FilesNamed(<<"build", ".", "gradle">>) :
              \A name \in AllCaptures(k) : Listed(name, 6)

\* the structured manifests of the list, with the sections their configuration tracks
StructuredFiles ==
    {k \in 1..Len(files) :
        /\ ToLowerCase(Last(Split(files[k].path, Slash))) \in DOMAIN MANIFEST_CONFIGS
        /\ MANIFEST_CONFIGS[ToLowerCase(Last(Split(files[k].path, Slash)))].type \in {"toml", "yaml"}}

TrackedSections(k) == MANIFEST_CONFIGS[ToLowerCase(Last(Split(files[k].path, Slash)))].sections

\* a section header: a configured marker, a [table] line, or a key with nothing after
\* its colon
IsHeader(k, line) ==
    \/ \E n \in 1..Len(TrackedSections(k)) : TrackedSections(k)[n].key = line
    \/ StartsWith(line, <<"[">>)
    \/ (Len(line) = 2 /\ line[2] = ":")

\* the key of a line "key = value" or "key: value", or <<>>
StatedKey(line) ==
    IF /\ Len(line) >= 3
       /\ line[1] \notin NonNameWords
       /\ (line[2] \in {"=", ":"} \/ (line[2] = " " /\ line[3] = "="))
    THEN <<line[1]>>
    ELSE <<>>

\* the weights with which the lines of a structured manifest declare a name: the line is
\* inside a tracked section when the last header before it is that section's marker
StatedWeights(k, name) ==
    {TrackedSections(k)[n].weight :
        n \in {n \in 1..Len(TrackedSections(k)) :
                 \E i \in 1..Len(files[k].content.lines) :
                    /\ StatedKey(files[k].content.lines[i]) = name
                    /\ \E h \in 1..(i - 1) :
                          /\ files[k].content.lines[h] = TrackedSections(k)[n].key
                          /\ \A j \in (h + 1)..(i - 1) : ~IsHeader(k, files[k].content.lines[j])}}

\* the names excluded by some section of the manifest's configuration
ReservedNames(k) == UNION {TrackedSections(k)[n].exclude : n \in 1..Len(TrackedSections(k))}

\* C22: in Cargo.toml, pyproject.toml and pubspec.yaml a line inside a tracked section
\* yields the key before "=" or ":" with the weight of the section: a name that is not
\* reserved is listed with one of the weights its sections declare it with (7 under
\* dependencies:, 4 under dev_dependencies: of a pubspec.yaml), and a name that only
\* lines outside the tracked sections carry is not listed.
C22_SectionKeysReported ==
    InsightsReturned =>
        \A k \in StructuredFiles :
            \A i \in 1..Len(files[k].content.lines) :
                LET name == StatedKey(files[k].content.lines[i])
                    weights == UNION {StatedWeights(f, name) : f \in StructuredFiles}
                IN  (name # <<>> /\ name \notin ReservedNames(k)) =>
                        IF weights = {}
                        THEN \A count \in 0..10 : ~Listed(name, count)
                        ELSE \E count \in weights : Listed(name, count)

\* the same for the manifests written with "=" alone
C22_TomlKeysReported ==
    (InsightsReturned /\ \A k \in FilesNamed(<<"pubspec", ".", "yaml">>) : FALSE)
        => C22_SectionKeysReported

(***************************************************************************)
(* Test coverage figures.                                                  *)
(***************************************************************************)
\* round(100 * t / n) for n > 0, halves rounded up
RoundedPercent(t, n) == (200 * t + n) \div (2 * n)

\* C23: the coverage percentage is round(100 * testFileCount / max(sourceFileCount, 1))
\* clamped to 100, for every number of test files and of source files, also for test
\* files without any source file.
C23_PercentageAsStated ==
    InsightsReturned =>
        LET testFileCount == Len(insights.value.testCoverage.testFiles)
            sourceFileCount == insights.value.testCoverage.totalFiles
            stated == RoundedPercent(testFileCount, IF sourceFileCount >= 1 THEN sourceFileCount ELSE 1)
        IN  insights.value.testCoverage.percentage = (IF stated <= 100 THEN stated ELSE 100)

\* the same where there is a source file
C23_PercentageWithSources ==
    (InsightsReturned /\ insights.value.testCoverage.totalFiles > 0) => C23_PercentageAsStated

\* the source files of the list that no test file names
UntestedSources ==
    LET testFiles == SelectSeq(files, IsTestFile)
    IN  {k \in 1..Len(files) :
            /\ IsSourceFile(files[k], testFiles)
            /\ ~\E t \in 1..Len(testFiles) :
                   Includes(ToLowerCase(testFiles[t].path), ToLowerCase(SourceName(files[k].path)))}

\* C24: testedFiles is the number of source files less the number of untested source
\* files, raised to at least 1 when there is a test file; for every file list, also
\* without a test file and with more untested source files than untestedFiles shows.
C24_TestedFilesAsStated ==
    InsightsReturned =>
        LET coverage == insights.value.testCoverage
            tested == coverage.totalFiles - Cardinality(UntestedSources)
        IN  coverage.testedFiles =
                (IF Len(coverage.testFiles) > 0 /\ tested < 1 THEN 1 ELSE tested)

\* the same with the length of the returned untestedFiles list in place of the number
\* of untested source files
C24_TestedFilesFromList ==
    InsightsReturned =>
        LET coverage == insights.value.testCoverage
            tested == coverage.totalFiles - Len(coverage.untestedFiles)
        IN  coverage.testedFiles =
                (IF Len(coverage.testFiles) > 0 /\ tested < 1 THEN 1 ELSE tested)

\* the same for the lists with at most as many untested source files as untestedFiles shows
C24_TestedFilesBelowCap ==
    (InsightsReturned /\ Cardinality(UntestedSources) <= UNTESTED_CAP) => C24_TestedFilesAsStated

\* the conventional names of a test directory
TestDirectoryNames == {<<"test", "s">>, <<"test">>, <<"__", "test", "s", "__">>}

\* the files of the list with a directory segment of such a name
InTestDirectory ==
    {k \in 1..Len(files) :
        \E n \in 1..(Len(Split(files[k].path, Slash)) - 1) :
            Split(files[k].path, Slash)[n] \in TestDirectoryNames}

\* C25: a file with a path segment tests, test or __tests__ is a test file wherever the
\* segment stands, also as the first segment, and is not counted as a source file: its
\* path is in testFiles, and the files outside the test directories account for totalFiles.
C25_TestDirectoriesTold ==
    InsightsReturned =>
        /\ \A k \in InTestDirectory : InSeq(insights.value.testCoverage.testFiles, files[k].path)
        /\ insights.value.testCoverage.totalFiles <= Len(files) - Cardinality(InTestDirectory)

\* a path under node_modules, dist/, build/, .git/ or coverage/, a .d.ts file or a
\* generated file
ExcludedPath(path) ==
    \/ \E w \in {"node_modules", "generated"} : InSeq(ToLowerCase(path), w)
    \/ \E w \in {"dist", "build", "coverage"} : Includes(ToLowerCase(path), <<w, Slash>>)
    \/ Includes(ToLowerCase(path), <<Dot, "git", Slash>>)
    \/ EndsWith(ToLowerCase(path), <<Dot, "d", Dot, "ts">>)

\* the files of the list to count as source files, given the paths reported as tests
CountedSources(testPaths) ==
    {k \in 1..Len(files) :
        /\ CodeExtensionOf(ToLowerCase(files[k].path)) # ""
        /\ ~InSeq(testPaths, files[k].path)
        /\ ~ExcludedPath(files[k].path)}

\* C26: testFiles, the counted source files and untestedFiles are consistent: totalFiles
\* counts the files with a code extension that are not in testFiles and not excluded, so
\* that no path is both a test and a counted source; every path in untestedFiles is of
\* such a source file; untestedFiles has at most 20 entries, in ascending order.
C26_CoverageListsConsistent ==
    InsightsReturned =>
        LET coverage == insights.value.testCoverage
            sources == CountedSources(coverage.testFiles)
        IN  /\ coverage.totalFiles = Cardinality(sources)
            /\ \A i \in 1..Len(coverage.untestedFiles) :
                  \E k \in sources : files[k].path = coverage.untestedFiles[i]
            /\ Len(coverage.untestedFiles) <= 20
            /\ \A i \in 1..(Len(coverage.untestedFiles) - 1) :
                  compareCodeUnits(coverage.untestedFiles[i], coverage.untestedFiles[i + 1]) <= 0

\* a list with a test file, an excluded file and more untested source files than the
\* cap, given in other than ascending order
C26_Witness ==
    /\ InsightsReturned
    /\ Len(insights.value.testCoverage.testFiles) > 0
    /\ \E k \in 1..Len(files) : ExcludedPath(files[k].path)
    /\ Cardinality(CountedSources(insights.value.testCoverage.testFiles)) > 20
    /\ Len(insights.value.testCoverage.untestedFiles) = 20
    /\ compareCodeUnits(files[1].path, files[2].path) > 0

\* C29: testedFiles never exceeds totalFiles, and is 0 when there is no test file.
C29_TestedWithinTotal ==
    InsightsReturned =>
        /\ insights.value.testCoverage.testedFiles <= insights.value.testCoverage.totalFiles
        /\ (Len(insights.value.testCoverage.testFiles) = 0
                => insights.value.testCoverage.testedFiles = 0)

\* the same where there is a source file
C29_TestedWithinTotalOfSources ==
    (InsightsReturned /\ insights.value.testCoverage.totalFiles > 0) => C29_TestedWithinTotal

(***************************************************************************)
(* The project type.                                                       *)
(***************************************************************************)
PathListed(path) == \E k \in 1..Len(files) : files[k].path = path

FragmentListed(fragment) == \E k \in 1..Len(files) : Includes(files[k].path, fragment)

TypeRule(applies, type) == [applies |-> applies, type |-> type]

\* the rules of the project type in their order; a marker file is a path of the list,
\* a marker fragment a part of one
ProjectTypeRules ==
    << TypeRule(PathListed(PackageJson) /\ FragmentListed(<<"next", ".", "config">>),
            <<"Next.js", " ", "Application">>),
       TypeRule(PathListed(PackageJson)
                /\ (FragmentListed(<<"components", "/">>) \/ FragmentListed(<<"pages", "/">>)),
            <<"React", " ", "Application">>),
       TypeRule(PathListed(PackageJson)
                /\ (FragmentListed(<<"server">>) \/ FragmentListed(<<"express">>)),
            <<"Node.js", " ", "Server">>),
       TypeRule(PathListed(PackageJson), <<"JavaScript/TypeScript", " ", "Project">>),
       TypeRule(PathListed(<<"requirements", ".", "txt">>) \/ PathListed(<<"setup", ".", "py">>),
            <<"Python", " ", "Project">>),
       TypeRule(PathListed(<<"Cargo", ".", "toml">>), <<"Rust", " ", "Project">>),
       TypeRule(PathListed(<<"go", ".", "mod">>), <<"Go", " ", "Project">>),
       TypeRule(PathListed(<<"pom", ".", "xml">>) \/ FragmentListed(<<"build", ".", "gradle">>),
            <<"Java", " ", "Project">>),
       TypeRule(repository.present /\ repository.language = <<"TypeScript">>,
            <<"Typescript", " ", "Project">>),
       TypeRule(TRUE, <<"Software", " ", "Project">>) >>

Applicable == {n \in 1..Len(ProjectTypeRules) : ProjectTypeRules[n].applies}

\* the project type is that of the first applicable rule
FirstApplicableRule ==
    \E n \in Applicable :
        /\ \A m \in Applicable : n <= m
        /\ subsystemAnalysis.value.projectType = ProjectTypeRules[n].type

\* C27 as stated: for a non-empty file list the project type is that of the first
\* applicable rule in the order: root package.json (next.config, then components/ or
\* pages/, then server or express, then JavaScript/TypeScript), requirements.txt or
\* setup.py, Cargo.toml, go.mod, pom.xml or build.gradle, the repository's language,
\* "Software Project".
C27_FirstApplicableRuleAsStated ==
    (SubsystemsReturned /\ filesKind = "array" /\ Len(files) > 0) => FirstApplicableRule

\* C27 amended: for a file list with at least one file that has a path, the project
\* type is that of the first applicable rule in the stated order, and a marker of lower
\* priority does not override one of higher priority.
C27_FirstApplicableRule ==
    (SubsystemsReturned /\ filesKind = "array" /\ \E k \in 1..Len(files) : files[k].path # <<>>)
        => FirstApplicableRule

\* a list with the markers of three project types and a nested package.json, typed by
\* the marker of the highest priority
C27_Witness ==
    /\ SubsystemsReturned
    /\ PathListed(<<"requirements", ".", "txt">>) /\ PathListed(<<"Cargo", ".", "toml">>)
    /\ PathListed(<<"go", ".", "mod">>) /\ PathListed(<<"sub", "/", "package", ".", "json">>)
    /\ ~PathListed(PackageJson)
    /\ repository.language = <<"TypeScript">>
    /\ subsystemAnalysis.value.projectType = <<"Python", " ", "Project">>

(***************************************************************************)
(* Reserved names and repeated declarations.                               *)
(***************************************************************************)
\* the names reserved by the language of a manifest, by its lower-case file name
ReservedOf ==
    (<<"composer", ".", "json">> :> {<<"php">>}) @@
    (<<"pyproject", ".", "toml">> :> {<<"python">>}) @@
    (<<"pubspec", ".", "yaml">> :> {<<"flutter">>, <<"sdk">>})

\* the reserved names of the manifests of the list
ReservedListed ==
    UNION {ReservedOf[fileName] : fileName \in {f \in DOMAIN ReservedOf : FilesNamed(f) # {}}}

\* C28: the names reserved by a manifest's language ("php" for composer.json, "python"
\* for pyproject.toml, "flutter" and "sdk" for pubspec.yaml) are not among the reported
\* dependencies, whichever section of the manifest lists them.
C28_ReservedNamesNotReported ==
    InsightsReturned =>
        \A d \in 1..Len(insights.value.dependencies) :
            insights.value.dependencies[d].name \notin ReservedListed

\* C30: a package declared more than once, in several sections of a manifest or in
\* several manifests, is listed with a count of at least the highest weight among its
\* declarations: a later declaration of lower weight does not lower it.
C30_HighestWeightKept ==
    InsightsReturned =>
        \A d \in 1..Len(insights.value.dependencies) :
            \A weight \in CountsOf(parseManifestDependencies(files),
                                   insights.value.dependencies[d].name) :
                insights.value.dependencies[d].count >= weight

====
